---------------------------- MODULE Spec2Model ----------------------------
(***************************************************************************)
(* Model of the cave-survey backend (cave-local/app):                      *)
(*   - the network reducer reduce_graph of main.py with its helpers        *)
(*     shot_to_deltas and build_graph, stepped one loop iteration at a     *)
(*     time;                                                               *)
(*   - two calls of reduce_graph on the same shots, with another origin    *)
(*     or offset, to compare what they return;                             *)
(*   - the life cycle of one stored draft under the request handlers       *)
(*     update_draft, parse_draft_text, commit_draft and delete_draft;      *)
(*   - single calls of the validating, parsing and converting functions    *)
(*     of draft_utils, ocr_utils and claude_ocr on bounded inputs.         *)
(*                                                                         *)
(* Lengths and coordinates are fixed-point numbers counted in 1/10000 of a *)
(* distance unit, so that round(x, 3) of the code does something.  Angles  *)
(* are whole degrees restricted to the cardinal directions, where sine and *)
(* cosine are -1, 0 or 1; the floating-point noise of math.sin/math.cos at *)
(* those angles (about 1e-16) is below the resolution of the model.        *)
(***************************************************************************)
EXTENDS Integers, Sequences, FiniteSets, TLC

\* ------------------------------------------------------------------ bounds
\* Longest shot list handed to reduce_graph.
MaxShots == 3

\* One distance unit in fixed-point steps (4 decimals).
Unit == 10 * 1000

\* ------------------------------------------------------------ station names
Stations == {"A1", "A2", "A3", "A4"}

\* An origin name that no shot mentions.
AbsentName == "Z9"

AllNames == Stations \cup {AbsentName}

\* Python's str comparison a < b on the names of the model.
NameOrder == <<"A1", "A10", "A2", "A3", "A4", "Z9">>

NameRank(n) == CHOOSE i \in 1..Len(NameOrder) : NameOrder[i] = n

StrLess(a, b) == NameRank(a) < NameRank(b)

\* ---------------------------------------------------------------- geometry
CardinalDegrees == {-90, 0, 90, 180, 270}

\* math.sin(math.radians(d)) and math.cos(math.radians(d)) at the cardinal angles.
SinDeg(d) == CASE d = 0 -> 0 [] d = 90 -> 1 [] d = 180 -> 0 [] d = 270 -> -1 [] d = -90 -> -1

CosDeg(d) == CASE d = 0 -> 1 [] d = 90 -> 0 [] d = 180 -> -1 [] d = 270 -> 0 [] d = -90 -> 0

\* Mutant of shot_to_deltas: the axes swapped (sine for North, cosine for East).
shot_to_deltas_swapped(slope_distance, azimuth_deg, inclination_deg) ==
    LET horiz == slope_distance * CosDeg(inclination_deg)
        dz    == slope_distance * SinDeg(inclination_deg)
        dx    == horiz * CosDeg(azimuth_deg % 360)
        dy    == horiz * SinDeg(azimuth_deg % 360)
    IN  <<dx, dy, dz, horiz>>

\* shot_to_deltas: 0 degrees azimuth = North (+y), 90 = East (+x), inclination + up.
shot_to_deltas(slope_distance, azimuth_deg, inclination_deg) ==
    LET horiz == slope_distance * CosDeg(inclination_deg)
        dz    == slope_distance * SinDeg(inclination_deg)
        dx    == horiz * SinDeg(azimuth_deg % 360)
        dy    == horiz * CosDeg(azimuth_deg % 360)
    IN  <<dx, dy, dz, horiz>>

\* round(x, 3) on a non-negative fixed-point number with 4 decimals (ties to even).
round3(x) ==
    LET r    == x % 10
        base == x - r
    IN  IF r < 5 THEN base
        ELSE IF r > 5 THEN base + 10
        ELSE IF (base \div 10) % 2 = 0 THEN base ELSE base + 10

\* --------------------------------------------------------------- the inputs
\* models.Shot
Shot(f, t, d, az, inc) ==
    [from_station |-> f, to_station |-> t, slope_distance |-> d,
     azimuth_deg |-> az, inclination_deg |-> inc]

\* The shots the shot lists of the model are drawn from: a three-station loop
\* that does not close, an exact reverse pair, a repeated leg with another
\* length, a leg defined against the direction of travel, a self-loop, two
\* vertical legs to a fourth station and a second way to the third.
ShotChoices ==
    { Shot("A1", "A2", 10 * Unit, 0, 0),
      Shot("A2", "A3", 10 * Unit, 90, 0),
      Shot("A3", "A1", 10 * Unit, 180, 0),
      Shot("A2", "A1", 10 * Unit, 180, 0),
      Shot("A1", "A2", 5 * Unit + 4, 0, 0),
      Shot("A3", "A2", 10 * Unit, 270, 0),
      Shot("A1", "A1", 5 * Unit, 270, 0),
      Shot("A3", "A4", 5 * Unit, 0, 90),
      Shot("A2", "A4", 5 * Unit, 180, -90),
      Shot("A1", "A3", 10 * Unit, 90, 0) }

ShotLists == UNION { [1..n -> ShotChoices] : n \in 0..MaxShots }

\* Caller-supplied offsets (ox, oy, oz).
Offsets == { <<0, 0, 0>>, <<100 * Unit, 200 * Unit, -50 * Unit>> }

\* ------------------------------------------------------------- build_graph
EmptyGraph ==
    [adj  |-> [n \in AllNames |-> <<>>],   \* defaultdict(list): a missing key reads as []
     keys |-> <<>>,                        \* the keys of adj in insertion order
     vec  |-> <<>>,                        \* vec[eid + 1] is the code's vec[eid]
     eid  |-> 0]

AddKey(keys, n) == IF \E i \in 1..Len(keys) : keys[i] = n THEN keys ELSE Append(keys, n)

\* Mutant of AddShot: the reverse edge is listed under the destination with the
\* id of the forward edge, and carries the forward displacement.
AddShotOneId(g, s) ==
    LET u    == s.from_station
        v    == s.to_station
        d    == shot_to_deltas(s.slope_distance, s.azimuth_deg, s.inclination_deg)
        fwd  == [u |-> u, v |-> v, d |-> <<d[1], d[2], d[3]>>]
        adj1 == [g.adj EXCEPT ![u] = Append(@, <<v, g.eid>>)]
        adj2 == [adj1 EXCEPT ![v] = Append(@, <<u, g.eid>>)]
    IN  [adj  |-> adj2,
         keys |-> AddKey(AddKey(g.keys, u), v),
         vec  |-> Append(Append(g.vec, fwd), fwd),
         eid  |-> g.eid + 2]

\* One iteration of build_graph's loop over the shots.
AddShot(g, s) ==
    LET u    == s.from_station
        v    == s.to_station
        d    == shot_to_deltas(s.slope_distance, s.azimuth_deg, s.inclination_deg)
        fwd  == [u |-> u, v |-> v, d |-> <<d[1], d[2], d[3]>>]
        rev  == [u |-> v, v |-> u, d |-> <<-d[1], -d[2], -d[3]>>]
        adj1 == [g.adj EXCEPT ![u] = Append(@, <<v, g.eid>>)]
        adj2 == [adj1 EXCEPT ![v] = Append(@, <<u, g.eid + 1>>)]
    IN  [adj  |-> adj2,
         keys |-> AddKey(AddKey(g.keys, u), v),
         vec  |-> Append(Append(g.vec, fwd), rev),
         eid  |-> g.eid + 2]

RECURSIVE BuildFrom(_, _, _)
BuildFrom(ss, i, g) ==
    IF i > Len(ss) THEN g
    ELSE \* x is the graph after shot i, computed once
         CHOOSE r \in { BuildFrom(ss, i + 1, x) : x \in {AddShot(g, ss[i])} } : TRUE

build_graph(ss) == BuildFrom(ss, 1, EmptyGraph)

\* shot_map of reduce_graph: (from, to) -> (s_len, h_len); a later shot with the
\* same pair overwrites an earlier one.
RECURSIVE ShotMapFrom(_, _, _)
ShotMapFrom(ss, i, m) ==
    IF i > Len(ss) THEN m
    ELSE LET s == ss[i]
             d == shot_to_deltas(s.slope_distance, s.azimuth_deg, s.inclination_deg)
             e == [s_len |-> s.slope_distance, h_len |-> d[4]]
             k == <<s.from_station, s.to_station>>
         IN  ShotMapFrom(ss, i + 1,
                 [p \in (DOMAIN m) \cup {k} |-> IF p = k THEN e ELSE m[p]])

make_shot_map(ss) == ShotMapFrom(ss, 1, <<>>)

\* Mutant of choose_seed: the fallback is taken even when origin_name is in the graph.
choose_seed_first_key(g, name) ==
    IF g.keys # <<>> THEN g.keys[1] ELSE name

\* seed = origin_name if origin_name in adj else (next(iter(adj)) if adj else origin_name)
choose_seed(g, name) ==
    IF \E i \in 1..Len(g.keys) : g.keys[i] = name THEN name
    ELSE IF g.keys # <<>> THEN g.keys[1] ELSE name


\* ------------------------------------------------------------------- state
VARIABLES
    shots,          \* reduce_graph's argument shots
    origin_name,    \* reduce_graph's argument origin_name
    offset,         \* reduce_graph's arguments <<ox, oy, oz>>
    pc,             \* where reduce_graph stands: "idle", "while", "for", "done"
    graph,          \* adj, vec as returned by build_graph
    shot_map,       \* (from, to) -> lengths
    seed,           \* the seed station
    pos,            \* station -> <<x, y, z>>
    visited_edges,  \* set of edge ids
    residuals,      \* list of <<u, v, dx, dy, dz>>
    total_slope,
    total_horiz,
    q,              \* the deque of stations
    u,              \* the station dequeued last
    k,              \* index of the next entry of adj[u]
    edges,          \* returned set of undirected edges
    meta,           \* returned metadata
    via,            \* history: station -> id of the edge that positioned it
    first           \* what an earlier call on the same shots returned

rvars == <<shots, origin_name, offset, pc, graph, shot_map, seed, pos,
           visited_edges, residuals, total_slope, total_horiz, q, u, k,
           edges, meta, via, first>>

\* The stored draft and the requests on it (the handlers are further down).
VARIABLES
    settings,      \* [disable_auth, anthropic_api_key]: the process-wide settings
    json_tracked,  \* whether the ORM column draft_data records in-place changes of
                   \* the dict (the column type decides; both outcomes are modelled)
    draft_exists,  \* the row of draft DraftId is in the table
    draft,         \* the row: status, draft_data, has_errors, error_count, ...
    reqs,          \* requests handled so far; also the clock read by datetime.now()
    response       \* [op, code] of the request handled last

dvars == <<settings, json_tracked, draft_exists, draft, reqs, response>>

\* One call of a function of draft_utils, ocr_utils or claude_ocr.
VARIABLES
    call,   \* [fn, arg]: the function called and its argument
    ret     \* [done, value]: whether it has returned, and what it returned

uvars == <<call, ret>>

\* The survey row and what a request on the whole survey answered.
VARIABLES
    survey_stats,  \* survey id -> the columns num_stations, num_shots, total_slope_distance
    result         \* [op, code, detail, payload] of the survey request handled last

svars == <<survey_stats, result>>

\* Two commit_draft requests on the same draft, each in its own thread and
\* database session.
VARIABLES
    creq,           \* request -> [pc, user, seen, code]: where it stands, the row as
                    \* its session read it, and the status code it answered
    commit_writes   \* history: how often committed_at has been written

cvars == <<creq, commit_writes>>

\* The tables behind the upload and list requests.
VARIABLES
    surveys,   \* surveys[i] is owner_id of the survey with id i
    drafts,    \* the draft rows in the order of their ids: [survey_id, uploaded_by, source_type]
    listing    \* [user, survey_id, code, rows]: what list_drafts answered last, and to whom

lvars == <<surveys, drafts, listing>>

hvars == <<svars, cvars, lvars>>

vars == <<rvars, dvars, uvars, hvars>>

\* The called function returns value.
Return(value) == ret' = [done |-> TRUE, value |-> value]

\* Mutant of Vadd: the east and north displacements are exchanged.
VaddSwapped(a, b) == <<a[1] + b[2], a[2] + b[1], a[3] + b[3]>>

\* Mutant of Vadd: the elevation of a new station is dz, the elevation of the
\* station it was shot from is left out.
VaddFlat(a, b) == <<a[1] + b[1], a[2] + b[2], b[3]>>

Vadd(a, b) == <<a[1] + b[1], a[2] + b[2], a[3] + b[3]>>

\* Mutant of Vsub: the predicted position is compared with itself.
VsubSelf(a, b) == <<a[1] - a[1], a[2] - a[2], a[3] - a[3]>>

Vsub(a, b) == <<a[1] - b[1], a[2] - b[2], a[3] - b[3]>>

SetMin(S) == CHOOSE x \in S : \A y \in S : x <= y

SetMax(S) == CHOOSE x \in S : \A y \in S : x >= y

\* No earlier call.
NoRun ==
    [ran |-> FALSE, origin_name |-> AbsentName, offset |-> <<0, 0, 0>>,
     seed |-> AbsentName, pos |-> <<>>, residuals |-> <<>>,
     total_slope |-> 0, total_horiz |-> 0,
     total_slope_distance |-> 0, total_horizontal_distance |-> 0]

InitReduce ==
    /\ shots \in ShotLists
    /\ origin_name \in AllNames
    /\ offset \in Offsets
    /\ pc = "idle"
    /\ graph = EmptyGraph
    /\ shot_map = <<>>
    /\ seed = origin_name
    /\ pos = <<>>
    /\ visited_edges = {}
    /\ residuals = <<>>
    /\ total_slope = 0
    /\ total_horiz = 0
    /\ q = <<>>
    /\ u = origin_name
    /\ k = 1
    /\ edges = {}
    /\ meta = <<>>
    /\ via = <<>>
    /\ first = NoRun

\* reduce_graph up to the loop: graph, seed, seed coordinates, shot_map, queue.
Begin ==
    /\ pc = "idle"
    /\ graph' = build_graph(shots)
    /\ seed' = choose_seed(graph', origin_name)
    /\ pos' = (seed' :> offset)
    /\ visited_edges' = {}
    /\ residuals' = <<>>
    /\ total_slope' = 0
    /\ total_horiz' = 0
    /\ shot_map' = make_shot_map(shots)
    /\ q' = <<seed'>>
    /\ pc' = "while"
    /\ UNCHANGED <<shots, origin_name, offset, u, k, edges, meta, via>>
    /\ UNCHANGED <<first, dvars, uvars, hvars>>

\* while q: u = q.popleft()
Dequeue ==
    /\ pc = "while"
    /\ q # <<>>
    /\ u' = Head(q)
    /\ q' = Tail(q)
    /\ k' = 1
    /\ pc' = IF graph.adj[Head(q)] = <<>> THEN "while" ELSE "for"
    /\ UNCHANGED <<shots, origin_name, offset, graph, shot_map, seed, pos,
                   visited_edges, residuals, total_slope, total_horiz, edges,
                   meta, via>>
    /\ UNCHANGED <<first, dvars, uvars, hvars>>

\* if (u, v) in shot_map: total += length
AccumulateLength(total, uu, v, eid, field) ==
    IF <<uu, v>> \in DOMAIN shot_map THEN total + shot_map[<<uu, v>>][field] ELSE total

\* Mutant of AssignOrKeep: a station reached again takes the new predicted position.
AssignAlways(p, v, predicted) ==
    [s \in (DOMAIN p) \cup {v} |-> IF s = v THEN predicted ELSE p[s]]

\* pos[v] = (ux + dx, uy + dy, uz + dz), only under "if v not in pos".
AssignOrKeep(p, v, predicted) ==
    IF v \in DOMAIN p THEN p
    ELSE [s \in (DOMAIN p) \cup {v} |-> IF s = v THEN predicted ELSE p[s]]

\* Mutant of MarkVisited: the reverse edge of the same shot is consumed too.
MarkVisitedBoth(visited, eid) ==
    visited \cup {eid, IF eid % 2 = 0 THEN eid + 1 ELSE eid - 1}

\* Mutant of MarkVisited: the edge id is not recorded.
MarkNothing(visited, eid) == visited

\* visited_edges.add(eid)
MarkVisited(visited, eid) == visited \cup {eid}

\* One iteration of "for v, eid in adj[u]".
ForEdge ==
    /\ pc = "for"
    /\ k <= Len(graph.adj[u])
    /\ LET v         == graph.adj[u][k][1]
           eid       == graph.adj[u][k][2]
           predicted == Vadd(pos[u], graph.vec[eid + 1].d)
       IN  IF eid \in visited_edges
           THEN UNCHANGED <<visited_edges, pos, q, residuals, total_slope,
                            total_horiz, via>>
           ELSE /\ visited_edges' = MarkVisited(visited_edges, eid)
                /\ pos' = AssignOrKeep(pos, v, predicted)
                /\ IF v \notin DOMAIN pos
                   THEN /\ total_slope' = AccumulateLength(total_slope, u, v, eid, "s_len")
                        /\ total_horiz' = AccumulateLength(total_horiz, u, v, eid, "h_len")
                        /\ q' = Append(q, v)
                        /\ via' = (v :> eid) @@ via
                        /\ UNCHANGED residuals
                   ELSE /\ residuals' = Append(residuals,
                                <<u, v>> \o Vsub(predicted, pos[v]))
                        /\ UNCHANGED <<q, total_slope, total_horiz, via>>
    /\ k' = k + 1
    /\ pc' = IF k = Len(graph.adj[u]) THEN "while" ELSE "for"
    /\ UNCHANGED <<shots, origin_name, offset, graph, shot_map, seed, u,
                   edges, meta>>
    /\ UNCHANGED <<first, dvars, uvars, hvars>>

\* Mutant of EdgeKey: the pair is kept in the direction of the directed edge.
EdgeKeyDirected(a, b) == <<a, b>>

\* key = (a, b) if a < b else (b, a)
EdgeKey(a, b) == IF StrLess(a, b) THEN <<a, b>> ELSE <<b, a>>

\* edges: one key per entry of vec.
UndirectedEdges(g) == { EdgeKey(g.vec[i].u, g.vec[i].v) : i \in 1..Len(g.vec) }

Bbox(p) ==
    IF DOMAIN p # {}
    THEN LET xs == { p[s][1] : s \in DOMAIN p }
             ys == { p[s][2] : s \in DOMAIN p }
             zs == { p[s][3] : s \in DOMAIN p }
         IN  [min_x |-> SetMin(xs), max_x |-> SetMax(xs),
              min_y |-> SetMin(ys), max_y |-> SetMax(ys),
              min_z |-> SetMin(zs), max_z |-> SetMax(zs)]
    ELSE <<>>

\* The queue is empty: edge set, bounding box and metadata; return.
Finish ==
    /\ pc = "while"
    /\ q = <<>>
    /\ edges' = UndirectedEdges(graph)
    /\ meta' = [num_stations |-> Cardinality(DOMAIN pos),
                num_shots |-> Cardinality(edges'),
                total_slope_distance |-> round3(total_slope),
                total_horizontal_distance |-> round3(total_horiz),
                bbox |-> Bbox(pos),
                residuals |-> [i \in 1..Len(residuals) |->
                                 [from |-> residuals[i][1], to |-> residuals[i][2],
                                  dx |-> residuals[i][3], dy |-> residuals[i][4],
                                  dz |-> residuals[i][5]]]]
    /\ pc' = "done"
    /\ UNCHANGED <<shots, origin_name, offset, graph, shot_map, seed, pos,
                   visited_edges, residuals, total_slope, total_horiz, q, u,
                   k, via>>
    /\ UNCHANGED <<first, dvars, uvars, hvars>>

\* The shots of the lists that are reduced twice: two ways round a
\* three-station loop that does not close, and an exact reverse pair.
PairShotChoices ==
    { Shot("A1", "A2", 10 * Unit, 0, 0),
      Shot("A2", "A3", 10 * Unit, 90, 0),
      Shot("A3", "A1", 10 * Unit, 180, 0),
      Shot("A2", "A1", 10 * Unit, 180, 0),
      Shot("A1", "A3", 10 * Unit, 90, 0) }

PairShotLists == UNION { [1..n -> PairShotChoices] : n \in 0..MaxShots }

\* The shots of the lists whose reduction is followed to its end: a circuit of
\* three stations and a self-loop; a list may repeat a shot.
LoopShotChoices ==
    { Shot("A1", "A2", 10 * Unit, 0, 0),
      Shot("A2", "A3", 10 * Unit, 90, 0),
      Shot("A3", "A1", 10 * Unit, 180, 0),
      Shot("A1", "A1", 5 * Unit, 270, 0) }

LoopShotLists == UNION { [1..n -> LoopShotChoices] : n \in 0..MaxShots }

\* reduce_graph has returned and is called once more on the same shots, with
\* another origin station or another offset; what it returned is kept.
Rerun ==
    /\ pc = "done"
    /\ ~first.ran
    /\ first' = [ran |-> TRUE, origin_name |-> origin_name, offset |-> offset,
                 seed |-> seed, pos |-> pos, residuals |-> residuals,
                 total_slope |-> total_slope, total_horiz |-> total_horiz,
                 total_slope_distance |-> meta.total_slope_distance,
                 total_horizontal_distance |-> meta.total_horizontal_distance]
    /\ \E o \in AllNames, off \in Offsets :
          /\ <<o, off>> # <<origin_name, offset>>
          /\ origin_name' = o
          /\ offset' = off
          /\ seed' = o
          /\ u' = o
    /\ pc' = "idle"
    /\ graph' = EmptyGraph
    /\ shot_map' = <<>>
    /\ pos' = <<>>
    /\ visited_edges' = {}
    /\ residuals' = <<>>
    /\ total_slope' = 0
    /\ total_horiz' = 0
    /\ q' = <<>>
    /\ k' = 1
    /\ edges' = {}
    /\ meta' = <<>>
    /\ via' = <<>>
    /\ UNCHANGED <<shots, dvars, uvars, hvars>>


\* ------------------------------------------------------------------ drafts
\* Most requests handled in one behaviour of the draft model.
MaxRequests == 4

\* JSON values of a draft shot: a number (fixed-point, 4 decimals), null, or
\* a key that is not in the dict.
Num(n) == [t |-> "num", v |-> n]

NoneV == [t |-> "none", v |-> 0]

MissingV == [t |-> "missing", v |-> 0]

\* A None in the place of a station name; "" is the empty name.
NoneName == "<None>"

DraftShot(id, f, to, distance, compass, clino, type) ==
    [id |-> id, from |-> f, to |-> to, distance |-> distance,
     compass |-> compass, clino |-> clino, type |-> type]

\* float('nan'): a float that every comparison answers with False.
NaNV == [t |-> "nan", v |-> 0]

\* A string that float() cannot convert.
StrV == [t |-> "str", v |-> 0]

\* isinstance(x, (int, float))
IsNumber(x) == x.t \in {"num", "nan"}

\* x < c, x <= c, x > c, x >= c on floats: False when x is NaN.
Lt(x, c) == x.t = "num" /\ x.v < c

Le(x, c) == x.t = "num" /\ x.v <= c

Gt(x, c) == x.t = "num" /\ x.v > c

Ge(x, c) == x.t = "num" /\ x.v >= c

\* draft_utils.validate_shot: the list of error messages of one shot.
validate_shot(shot) ==
    LET distance == IF shot.distance.t = "missing" THEN Num(0) ELSE shot.distance
        compass  == IF shot.compass.t = "missing" THEN NoneV ELSE shot.compass
        clino    == IF shot.clino.t = "missing" THEN NoneV ELSE shot.clino
        e1 == IF shot.from \in {"", NoneName} THEN <<"Missing 'from' station">> ELSE <<>>
        e2 == IF shot.type = "survey" /\ shot.to \in {"", NoneName}
              THEN <<"Survey shots must have a 'to' station">> ELSE <<>>
        e3 == IF ~IsNumber(distance) THEN <<"Distance must be a number">>
              ELSE IF Le(distance, 0) THEN <<"Distance must be greater than 0">>
              ELSE IF Gt(distance, 1000 * Unit) THEN <<"Distance seems unusually large">>
              ELSE <<>>
        e4 == IF compass.t = "none" THEN <<"Missing compass reading">>
              ELSE IF ~IsNumber(compass) THEN <<"Compass must be a number">>
              ELSE IF Lt(compass, 0) \/ Ge(compass, 360 * Unit)
                   THEN <<"Compass must be between 0 and 360">>
              ELSE <<>>
        e5 == IF clino.t = "none" THEN <<"Missing clino reading">>
              ELSE IF ~IsNumber(clino) THEN <<"Clino must be a number">>
              ELSE IF Lt(clino, -90 * Unit) \/ Gt(clino, 90 * Unit)
                   THEN <<"Clino must be between -90 and 90">>
              ELSE <<>>
    IN  e1 \o e2 \o e3 \o e4 \o e5

\* The "shot" issues of shots[idx..], in order.
RECURSIVE ShotIssues(_, _)
ShotIssues(ss, idx) ==
    IF idx > Len(ss) THEN <<>>
    ELSE LET errs == validate_shot(ss[idx])
         IN  [i \in 1..Len(errs) |->
                 [type |-> "shot", shot_id |-> ss[idx].id, shot_index |-> idx - 1,
                  message |-> errs[i]]]
             \o ShotIssues(ss, idx + 1)

\* Mutant of DuplicateIssues: the shots are not filtered by type.
RECURSIVE DuplicateIssuesAnyType(_, _, _)
DuplicateIssuesAnyType(ss, idx, station_pairs) ==
    IF idx > Len(ss) THEN <<>>
    ELSE LET pair == <<ss[idx].from, ss[idx].to>>
         IN  (IF pair \in station_pairs
              THEN <<[type |-> "duplicate", shot_id |-> ss[idx].id, shot_index |-> -1,
                      message |-> "Duplicate shot"]>>
              ELSE <<>>)
             \o DuplicateIssuesAnyType(ss, idx + 1, station_pairs \cup {pair})

\* The "duplicate" issues: one for each survey shot whose pair was seen before.
RECURSIVE DuplicateIssues(_, _, _)
DuplicateIssues(ss, idx, station_pairs) ==
    IF idx > Len(ss) THEN <<>>
    ELSE IF ss[idx].type # "survey" THEN DuplicateIssues(ss, idx + 1, station_pairs)
    ELSE LET pair == <<ss[idx].from, ss[idx].to>>
         IN  (IF pair \in station_pairs
              THEN <<[type |-> "duplicate", shot_id |-> ss[idx].id, shot_index |-> -1,
                      message |-> "Duplicate shot"]>>
              ELSE <<>>)
             \o DuplicateIssues(ss, idx + 1, station_pairs \cup {pair})

CountType(issues, type) == Cardinality({ i \in 1..Len(issues) : issues[i].type = type })

\* draft_utils.validate_draft_data: (is_valid, issues).
validate_draft_data(draft_data) ==
    LET i0 == IF draft_data.metadata.present THEN <<>>
              ELSE <<[type |-> "structure", shot_id |-> -1, shot_index |-> -1,
                      message |-> "Missing metadata"]>>
    IN  IF draft_data.shots.t = "missing"
        THEN [is_valid |-> FALSE,
              issues |-> Append(i0, [type |-> "structure", shot_id |-> -1,
                         shot_index |-> -1, message |-> "Missing shots array"])]
        ELSE IF draft_data.shots.t # "list"
        THEN [is_valid |-> FALSE,
              issues |-> Append(i0, [type |-> "structure", shot_id |-> -1,
                         shot_index |-> -1, message |-> "Shots must be an array"])]
        ELSE IF Len(draft_data.shots.v) = 0
        THEN [is_valid |-> FALSE,
              issues |-> Append(i0, [type |-> "data", shot_id |-> -1,
                         shot_index |-> -1, message |-> "No shots found in data"])]
        ELSE LET issues == i0 \o ShotIssues(draft_data.shots.v, 1)
                              \o DuplicateIssues(draft_data.shots.v, 1, {})
             IN  [is_valid |-> CountType(issues, "shot") = 0, issues |-> issues]

\* json.dumps(issues) if issues else None
validation_notes_of(issues) ==
    IF Len(issues) = 0 THEN [t |-> "none", v |-> <<>>] ELSE [t |-> "json", v |-> issues]


\* ------------------------------------------------------ the stored draft

\* Users by id; survey 1 is owned by user 1, survey 2 by user 2.
Users == {1, 2}

SurveyIds == {1, 2}

SurveyOwner(survey_id) == survey_id

\* The draft of the model and the survey it was uploaded to.
DraftId == 1

DraftSurveyId == 1

DraftIds == {1, 2}

Metadata(present, needs_parsing, parsed_at) ==
    [present |-> present, needs_parsing |-> needs_parsing, parsed_at |-> parsed_at]

ShotList(ss) == [t |-> "list", v |-> ss]

DraftData(metadata, raw_text, ss) ==
    [metadata |-> metadata, raw_text |-> raw_text, shots |-> ss]

GoodShot1 == DraftShot(1, "A1", "A2", Num(10 * Unit), Num(0), Num(0), "survey")

GoodShot2 == DraftShot(2, "A2", "A3", Num(10 * Unit), Num(90 * Unit), Num(0), "survey")

SplayShot == DraftShot(2, "A2", NoneName, Num(3 * Unit), Num(45 * Unit), Num(10 * Unit), "splay")

ZeroShot == DraftShot(1, "A1", "A2", Num(0), Num(0), Num(0), "survey")

\* A shot as the text-extraction prompt asks for it: fs_azimuth and
\* fs_inclination in place of compass and clino.
FsShot == DraftShot(1, "A1", "A2", Num(10 * Unit), MissingV, MissingV, "survey")

\* Raw text: the lines after strip(); a line is blank, a header line (it
\* contains from, to, station or distance) or a data line.
RawTexts == { <<>>, <<"header">>, <<"header", "data">>, <<"data", "data">>, <<"blank">> }

NoRawText == <<>>

\* draft_data as the upload handlers store it: a parsed CSV, or raw text of
\* an image that waits for parsing.
UploadedDraftData ==
    { DraftData(Metadata(TRUE, FALSE, 0), NoRawText, ShotList(<<GoodShot1, GoodShot2>>)),
      DraftData(Metadata(TRUE, FALSE, 0), NoRawText, ShotList(<<ZeroShot>>)),
      DraftData(Metadata(TRUE, TRUE, 0), <<"header", "data">>, ShotList(<<>>)) }

\* What a client may send as data["draft_data"] to update_draft.
NoDraftData == [metadata |-> Metadata(FALSE, FALSE, 0), raw_text |-> NoRawText,
                shots |-> [t |-> "missing", v |-> <<>>]]

UpdateChoices ==
    { NoDraftData,
      DraftData(Metadata(TRUE, FALSE, 0), NoRawText, [t |-> "missing", v |-> <<>>]),
      DraftData(Metadata(TRUE, FALSE, 0), NoRawText, ShotList(<<GoodShot1, SplayShot>>)),
      DraftData(Metadata(TRUE, FALSE, 0), NoRawText, ShotList(<<GoodShot1, GoodShot1>>)),
      DraftData(Metadata(FALSE, FALSE, 0), NoRawText, ShotList(<<ZeroShot>>)) }

\* What parse_text_with_claude may return under "shots".
ClaudeShots ==
    { ShotList(<<>>), ShotList(<<FsShot>>), ShotList(<<GoodShot1>>),
      [t |-> "notlist", v |-> <<>>] }

NewDraft(draft_data) ==
    LET r == validate_draft_data(draft_data)
    IN  [status |-> "draft",
         draft_data |-> draft_data,
         has_errors |-> ~r.is_valid,
         error_count |-> CountType(r.issues, "shot"),
         validation_notes |-> validation_notes_of(r.issues),
         committed_at |-> 0]

InitDraft ==
    /\ settings \in [disable_auth : BOOLEAN, anthropic_api_key : BOOLEAN]
    /\ json_tracked \in BOOLEAN
    /\ draft_exists = TRUE
    /\ \E d \in UploadedDraftData : draft = NewDraft(d)
    /\ reqs = 0
    /\ response = [op |-> "none", code |-> 0]

\* db.query(SurveyDraft).filter(id == draft_id, survey_id == survey_id).first()
FindDraft(survey_id, draft_id) ==
    draft_exists /\ draft_id = DraftId /\ survey_id = DraftSurveyId

\* The survey query of the draft handlers: any survey in dev mode, else the caller's own.
FindSurvey(survey_id, user) ==
    IF settings.disable_auth THEN survey_id \in SurveyIds
    ELSE survey_id \in SurveyIds /\ SurveyOwner(survey_id) = user

Respond(op, code) ==
    /\ response' = [op |-> op, code |-> code]
    /\ reqs' = reqs + 1

\* PUT /surveys/{survey_id}/drafts/{draft_id}
update_draft(survey_id, draft_id, user, new_draft_data) ==
    /\ reqs < MaxRequests
    /\ IF ~FindDraft(survey_id, draft_id)
       THEN Respond("update_draft", 404) /\ UNCHANGED <<draft, draft_exists>>
       ELSE IF ~FindSurvey(survey_id, user)
       THEN Respond("update_draft", 403) /\ UNCHANGED <<draft, draft_exists>>
       ELSE IF draft.status = "committed"
       THEN Respond("update_draft", 400) /\ UNCHANGED <<draft, draft_exists>>
       ELSE IF new_draft_data = NoDraftData
       THEN Respond("update_draft", 400) /\ UNCHANGED <<draft, draft_exists>>
       ELSE LET r == validate_draft_data(new_draft_data)
            IN  /\ draft' = [draft EXCEPT
                               !.draft_data = new_draft_data,
                               !.has_errors = ~r.is_valid,
                               !.error_count = CountType(r.issues, "shot"),
                               !.validation_notes = validation_notes_of(r.issues),
                               !.status = "draft"]
                /\ Respond("update_draft", 200)
                /\ UNCHANGED draft_exists
    /\ UNCHANGED <<settings, json_tracked, rvars, uvars, hvars>>

\* Mutant of commit_draft_allowed: the stored has_errors flag is trusted in
\* place of a validation of the data.
commit_draft_by_flag(d) == d.status # "committed" /\ ~d.has_errors

\* Mutant of commit_draft_allowed: the draft is not validated before the commit.
commit_draft_unvalidated(d) == d.status # "committed"

\* commit_draft's two checks before the commit: not committed yet, and valid.
commit_draft_allowed(d) ==
    d.status # "committed" /\ validate_draft_data(d.draft_data).is_valid

\* POST /surveys/{survey_id}/drafts/{draft_id}/commit
commit_draft(survey_id, draft_id, user) ==
    /\ reqs < MaxRequests
    /\ IF ~FindDraft(survey_id, draft_id)
       THEN Respond("commit_draft", 404) /\ UNCHANGED <<draft, draft_exists>>
       ELSE IF ~FindSurvey(survey_id, user)
       THEN Respond("commit_draft", 403) /\ UNCHANGED <<draft, draft_exists>>
       ELSE IF ~commit_draft_allowed(draft)
       THEN Respond("commit_draft", 400) /\ UNCHANGED <<draft, draft_exists>>
       ELSE /\ draft' = [draft EXCEPT !.status = "committed", !.committed_at = reqs + 1]
            /\ Respond("commit_draft", 200)
            /\ UNCHANGED draft_exists
    /\ UNCHANGED <<settings, json_tracked, rvars, uvars, hvars>>

\* main.parse_text_simple: header and blank lines are skipped; the first data
\* line calls re.split, and main.py never imports re, so it raises NameError.
parse_text_simple(raw_text) ==
    IF \E i \in 1..Len(raw_text) : raw_text[i] = "data"
    THEN [raised |-> TRUE, shots |-> ShotList(<<>>)]
    ELSE [raised |-> FALSE, shots |-> ShotList(<<>>)]

\* raw_text.strip() is empty
IsEmptyText(raw_text) == \A i \in 1..Len(raw_text) : raw_text[i] = "blank"

\* No check of draft.status is made before the draft is rewritten.
\* POST /surveys/{survey_id}/drafts/{draft_id}/parse-text
parse_draft_text(survey_id, draft_id, user, raw_text, claude_shots) ==
    /\ reqs < MaxRequests
    /\ IF ~FindDraft(survey_id, draft_id)
       THEN Respond("parse_draft_text", 404) /\ UNCHANGED <<draft, draft_exists>>
       ELSE IF ~FindSurvey(survey_id, user)
       THEN Respond("parse_draft_text", 403) /\ UNCHANGED <<draft, draft_exists>>
       ELSE IF IsEmptyText(raw_text)
       THEN Respond("parse_draft_text", 400) /\ UNCHANGED <<draft, draft_exists>>
       ELSE LET parsed == IF settings.anthropic_api_key
                          THEN [raised |-> FALSE, shots |-> claude_shots]
                          ELSE parse_text_simple(raw_text)
                new_data == [draft.draft_data EXCEPT
                               !.raw_text = raw_text,
                               !.shots = parsed.shots,
                               !.metadata.needs_parsing = FALSE,
                               !.metadata.parsed_at = reqs + 1]
                r == validate_draft_data(new_data)
            IN  IF parsed.raised \/ ~draft.draft_data.metadata.present
                THEN \* NameError or KeyError: db.rollback(), HTTP 500
                     Respond("parse_draft_text", 500) /\ UNCHANGED <<draft, draft_exists>>
                ELSE /\ draft' = [draft EXCEPT
                                    !.draft_data = IF json_tracked THEN new_data ELSE @,
                                    !.has_errors = ~r.is_valid,
                                    !.error_count = CountType(r.issues, "shot"),
                                    !.validation_notes = validation_notes_of(r.issues)]
                     /\ Respond("parse_draft_text", 200)
                     /\ UNCHANGED draft_exists
    /\ UNCHANGED <<settings, json_tracked, rvars, uvars, hvars>>

\* DELETE /surveys/{survey_id}/drafts/{draft_id}
delete_draft(survey_id, draft_id, user) ==
    /\ reqs < MaxRequests
    /\ IF ~FindDraft(survey_id, draft_id)
       THEN Respond("delete_draft", 404) /\ UNCHANGED <<draft, draft_exists>>
       ELSE IF ~FindSurvey(survey_id, user)
       THEN Respond("delete_draft", 403) /\ UNCHANGED <<draft, draft_exists>>
       ELSE IF draft.status = "committed"
       THEN Respond("delete_draft", 400) /\ UNCHANGED <<draft, draft_exists>>
       ELSE /\ draft_exists' = FALSE
            /\ Respond("delete_draft", 200)
            /\ UNCHANGED draft
    /\ UNCHANGED <<settings, json_tracked, rvars, uvars, hvars>>

UpdateDraft ==
    \E s \in SurveyIds, d \in DraftIds, usr \in Users, nd \in UpdateChoices :
        update_draft(s, d, usr, nd)

CommitDraft == \E s \in SurveyIds, d \in DraftIds, usr \in Users : commit_draft(s, d, usr)

ParseDraftText ==
    \E s \in SurveyIds, d \in DraftIds, usr \in Users, rt \in RawTexts, cs \in ClaudeShots :
        parse_draft_text(s, d, usr, rt, cs)

DeleteDraft == \E s \in SurveyIds, d \in DraftIds, usr \in Users : delete_draft(s, d, usr)

NextDraft == UpdateDraft \/ CommitDraft \/ ParseDraftText \/ DeleteDraft

\* ------------------------------------------- requests on the whole survey
\* The export formats export_survey knows, and what a client may ask for.
Formats == {"srv", "dat", "svx", "th", "csv", "json"}

FormatInputs == Formats \cup {"xyz", "SRV", ""}

NoStats == [num_stations |-> 0, num_shots |-> 0, total_slope_distance |-> 0]

NoPayload == [media_type |-> "", extension |-> "", shots |-> <<>>]

NoResult == [op |-> "none", code |-> 0, detail |-> "", payload |-> NoPayload]

\* db.query(Survey).filter(Survey.id == survey_id, Survey.owner_id == current_user.id)
OwnSurvey(survey_id, user) == survey_id \in SurveyIds /\ SurveyOwner(survey_id) = user

\* db.query(SurveyDraft).filter(survey_id == survey_id, status == 'committed').all()
CommittedDrafts(survey_id) ==
    IF draft_exists /\ survey_id = DraftSurveyId /\ draft.status = "committed"
    THEN <<draft>> ELSE <<>>

\* export_utils.get_survey_shots_from_drafts: the shots of the committed
\* drafts, one draft after the other.
RECURSIVE get_survey_shots_from_drafts(_)
get_survey_shots_from_drafts(committed_drafts) ==
    IF committed_drafts = <<>> THEN <<>>
    ELSE (IF Head(committed_drafts).draft_data.shots.t = "list"
          THEN Head(committed_drafts).draft_data.shots.v ELSE <<>>)
         \o get_survey_shots_from_drafts(Tail(committed_drafts))

\* The serializers of export_utils, as far as the handler goes: the media
\* type and the file extension of the payload made from the shots.
ExportPayload(format, all_shots) ==
    [media_type |-> IF format = "csv" THEN "text/csv"
                    ELSE IF format = "json" THEN "application/json" ELSE "text/plain",
     extension |-> format,
     shots |-> all_shots]

SurveyRespond(op, code, detail, payload) ==
    /\ result' = [op |-> op, code |-> code, detail |-> detail, payload |-> payload]
    /\ Respond(op, code)

\* The if / elif chain of export_survey over the format.
export_dispatch(format, all_shots) ==
    IF format \in Formats
    THEN [code |-> 200, detail |-> "", payload |-> ExportPayload(format, all_shots)]
    ELSE [code |-> 400, detail |-> "Unsupported format", payload |-> NoPayload]

\* GET /surveys/{survey_id}/export/{format}
export_survey(survey_id, format, user) ==
    /\ reqs < MaxRequests
    /\ LET all_shots == get_survey_shots_from_drafts(CommittedDrafts(survey_id))
       IN  IF ~OwnSurvey(survey_id, user)
           THEN SurveyRespond("export_survey", 404, "Survey not found", NoPayload)
           ELSE IF all_shots = <<>>
           THEN SurveyRespond("export_survey", 400, "No committed data to export", NoPayload)
           ELSE LET r == export_dispatch(format, all_shots)
                IN  SurveyRespond("export_survey", r.code, r.detail, r.payload)
    /\ UNCHANGED <<draft, draft_exists, survey_stats, settings, json_tracked, rvars, uvars, cvars, lvars>>

\* survey_shots = [s for s in all_shots if s.get('type') == 'survey']
SurveyShots(all_shots) == SelectSeq(all_shots, LAMBDA s : s.type = "survey")

\* models.Shot(...) accepts the readings of s: the keys are there and the
\* field constraints hold; else the constructor raises.
ShotAccepts(s) ==
    /\ s.from \notin {"", NoneName}
    /\ s.to \notin {"", NoneName}
    /\ Gt(s.distance, 0) /\ Le(s.distance, 1000 * Unit)
    /\ Ge(s.compass, 0) /\ Lt(s.compass, 360 * Unit)
    /\ Ge(s.clino, -90 * Unit) /\ Le(s.clino, 90 * Unit)

\* The stations reduce_graph positions, starting from the set S: a station
\* is positioned when an edge, forward or reverse, leads to it from one that is.
RECURSIVE PositionedFrom(_, _)
PositionedFrom(ss, S) ==
    LET N == S \cup { ss[i].to : i \in { j \in 1..Len(ss) : ss[j].from \in S } }
               \cup { ss[i].from : i \in { j \in 1..Len(ss) : ss[j].to \in S } }
    IN  IF N = S THEN S ELSE PositionedFrom(ss, N)

RECURSIVE SumDistance(_)
SumDistance(ss) == IF ss = <<>> THEN 0 ELSE Head(ss).distance.v + SumDistance(Tail(ss))

\* Mutant of reduce_guard: the reduction runs on an empty list of survey shots.
reduce_guard_open(survey_shots) == FALSE

\* if not survey_shots: raise HTTPException(400, "No survey shots to reduce")
reduce_guard(survey_shots) == survey_shots = <<>>

\* What reduce_survey stores in the survey row after the reduction; with no
\* shot reduce_graph is not reached, shot_objects[0] raising IndexError.
ReducedStats(survey_shots) ==
    [num_stations |-> Cardinality(PositionedFrom(survey_shots, {survey_shots[1].from})),
     num_shots |-> Len(survey_shots),
     total_slope_distance |-> SumDistance(survey_shots)]

\* POST /surveys/{survey_id}/reduce
reduce_survey(survey_id, user) ==
    /\ reqs < MaxRequests
    /\ LET all_shots    == get_survey_shots_from_drafts(CommittedDrafts(survey_id))
           survey_shots == SurveyShots(all_shots)
       IN  IF ~OwnSurvey(survey_id, user)
           THEN /\ SurveyRespond("reduce_survey", 404, "Survey not found", NoPayload)
                /\ UNCHANGED survey_stats
           ELSE IF reduce_guard(survey_shots)
           THEN /\ SurveyRespond("reduce_survey", 400, "No survey shots to reduce", NoPayload)
                /\ UNCHANGED survey_stats
           ELSE IF survey_shots = <<>> \/ \E i \in 1..Len(survey_shots) : ~ShotAccepts(survey_shots[i])
           THEN \* ValidationError, KeyError or IndexError: HTTP 500
                /\ SurveyRespond("reduce_survey", 500, "error", NoPayload)
                /\ UNCHANGED survey_stats
           ELSE /\ survey_stats' = [survey_stats EXCEPT ![survey_id] = ReducedStats(survey_shots)]
                /\ SurveyRespond("reduce_survey", 200, "",
                                 [NoPayload EXCEPT !.shots = survey_shots])
    /\ UNCHANGED <<draft, draft_exists, settings, json_tracked, rvars, uvars, cvars, lvars>>

ExportSurvey ==
    \E s \in SurveyIds, f \in FormatInputs, usr \in Users : export_survey(s, f, usr)

ReduceSurvey == \E s \in SurveyIds, usr \in Users : reduce_survey(s, usr)

\* draft_data of the uploads the survey requests are run on: two legs, a leg
\* and a splay, splays only, and a leg of length zero.
SurveyDraftData ==
    { DraftData(Metadata(TRUE, FALSE, 0), NoRawText, ShotList(<<GoodShot1, GoodShot2>>)),
      DraftData(Metadata(TRUE, FALSE, 0), NoRawText, ShotList(<<GoodShot1, SplayShot>>)),
      DraftData(Metadata(TRUE, FALSE, 0), NoRawText, ShotList(<<SplayShot>>)),
      DraftData(Metadata(TRUE, FALSE, 0), NoRawText, ShotList(<<ZeroShot>>)) }

InitSurvey ==
    /\ settings \in [disable_auth : BOOLEAN, anthropic_api_key : {FALSE}]
    /\ json_tracked = TRUE
    /\ draft_exists = TRUE
    /\ \E d \in SurveyDraftData : draft = NewDraft(d)
    /\ reqs = 0
    /\ response = [op |-> "none", code |-> 0]
    /\ survey_stats = [s \in SurveyIds |-> NoStats]
    /\ result = NoResult

NextSurvey == CommitDraft \/ DeleteDraft \/ ExportSurvey \/ ReduceSurvey

\* -------------------------------------- two commit requests at the same time
\* The two requests; each is handled by a worker thread of its own, with a
\* session of its own (get_db), and no row lock is taken.
Requests == {1, 2}

\* The request answers with a status code and is done.
RaceAnswer(r, code) ==
    creq' = [creq EXCEPT ![r].pc = "done", ![r].code = code]

\* commit_draft, first part: the draft query and the survey query.
RaceRead(r) ==
    /\ creq[r].pc = "start"
    /\ IF ~FindDraft(DraftSurveyId, DraftId) THEN RaceAnswer(r, 404)
       ELSE IF ~FindSurvey(DraftSurveyId, creq[r].user) THEN RaceAnswer(r, 403)
       ELSE creq' = [creq EXCEPT ![r].pc = "read", ![r].seen = draft]
    /\ UNCHANGED <<commit_writes, svars, lvars, dvars, rvars, uvars>>

\* commit_draft, second part: the status check and the validation, both on
\* the row as this session read it.
RaceCheck(r) ==
    /\ creq[r].pc = "read"
    /\ IF ~commit_draft_allowed(creq[r].seen) THEN RaceAnswer(r, 400)
       ELSE creq' = [creq EXCEPT ![r].pc = "validated"]
    /\ UNCHANGED <<commit_writes, svars, lvars, dvars, rvars, uvars>>

\* commit_draft, last part: status and committed_at are assigned and
\* db.commit() writes them; the request reports success.
RaceWrite(r) ==
    /\ creq[r].pc = "validated"
    /\ draft' = [draft EXCEPT !.status = "committed", !.committed_at = reqs + 1]
    /\ reqs' = reqs + 1
    /\ commit_writes' = commit_writes + 1
    /\ RaceAnswer(r, 200)
    /\ UNCHANGED <<settings, json_tracked, draft_exists, response, svars, lvars, rvars, uvars>>

RaceStep == \E r \in Requests : RaceRead(r) \/ RaceCheck(r) \/ RaceWrite(r)

InitRace ==
    /\ settings \in [disable_auth : BOOLEAN, anthropic_api_key : {FALSE}]
    /\ json_tracked = TRUE
    /\ draft_exists \in BOOLEAN
    /\ \E d \in UploadedDraftData : draft = NewDraft(d)
    /\ reqs = 0
    /\ response = [op |-> "none", code |-> 0]
    /\ creq \in [Requests -> [pc : {"start"}, user : Users,
                               seen : {NewDraft(NoDraftData)}, code : {0}]]
    /\ commit_writes = 0

\* ------------------------------------------- the functions called alone
\* A splay that names a destination, and a shot whose type is neither
\* "survey" nor "splay"; both pass validate_shot.
SplayWithTo == DraftShot(3, "A1", "A2", Num(3 * Unit), Num(0), Num(0), "splay")

LegShot == DraftShot(3, "A10", "A3", Num(5 * Unit), Num(0), Num(0), "leg")

DraftShotChoices == { GoodShot1, GoodShot2, SplayShot, ZeroShot, SplayWithTo, LegShot }

DraftShotLists == UNION { [1..n -> DraftShotChoices] : n \in 0..MaxShots }

\* draft_data with a shot list, with 'shots' missing and with 'shots' not a list.
DraftDataInputs ==
    { DraftData(Metadata(TRUE, FALSE, 0), NoRawText, ShotList(ss)) : ss \in DraftShotLists }
    \cup { DraftData(Metadata(p, FALSE, 0), NoRawText, s) :
             p \in BOOLEAN,
             s \in { ShotList(<<>>), [t |-> "missing", v |-> <<>>],
                     [t |-> "notlist", v |-> <<>>] } }

\* Readings at and next to the limits of the ranges (0.01, 1000.0001, 359.9,
\* 90.1 in fixed point), NaN, null, a missing key and a string.
DistanceValues ==
    { Num(-Unit), Num(0), Num(Unit \div 100), Num(1000 * Unit), Num(1000 * Unit + 1),
      NaNV, NoneV, MissingV, StrV }

CompassValues ==
    { Num(-(Unit \div 10)), Num(0), Num(360 * Unit - Unit \div 10), Num(360 * Unit),
      NaNV, NoneV, StrV }

ClinoValues ==
    { Num(-90 * Unit - Unit \div 10), Num(-90 * Unit), Num(90 * Unit),
      Num(90 * Unit + Unit \div 10), NaNV, NoneV }

ShotInputs ==
    { DraftShot(1, f, to, d, c, cl, ty) :
        f \in {"A1", "", NoneName}, to \in {"A2", NoneName}, d \in DistanceValues,
        c \in CompassValues, cl \in ClinoValues, ty \in {"survey", "splay"} }

\* round(x, n) on a fixed-point number: to the nearest multiple of m, ties
\* to the even multiple.
RoundTo(x, m) ==
    LET r    == x % m
        base == x - r
    IN  IF 2 * r < m THEN base
        ELSE IF 2 * r > m THEN base + m
        ELSE IF (base \div m) % 2 = 0 THEN base ELSE base + m

\* round of a float: NaN stays NaN.
RoundV(x, m) == IF x.t = "num" THEN Num(RoundTo(x.v, m)) ELSE x

\* float(x): raises ValueError for a string that is no number and TypeError
\* for None.
FloatRaises(x) == x.t \in {"str", "none"}

\* What a parser returns in place of a shot it does not emit.
NoShot == DraftShot(0, "", "", NoneV, NoneV, NoneV, "none")

Emitted(shot) == [emitted |-> TRUE, shot |-> shot]

NotEmitted == [emitted |-> FALSE, shot |-> NoShot]

\* claude_ocr.clean_shot; shot.from is NoneName for a JSON null, "" for a
\* missing key or an empty string.
clean_shot(shot, shot_id) ==
    LET from_station == IF shot.from = NoneName THEN "None" ELSE shot.from
        is_splay     == shot.to \in {NoneName, "", "-", "null"}
        to_station   == IF is_splay THEN NoneName ELSE shot.to
        shot_type    == IF is_splay THEN "splay" ELSE "survey"
        distance     == IF shot.distance.t = "missing" THEN Num(0) ELSE shot.distance
        compass      == IF shot.compass.t = "missing" THEN Num(0) ELSE shot.compass
        clino        == IF shot.clino.t = "missing" THEN Num(0) ELSE shot.clino
    IN  IF from_station = "" THEN NotEmitted
        ELSE IF FloatRaises(distance) \/ FloatRaises(compass) \/ FloatRaises(clino)
        THEN NotEmitted
        ELSE IF Le(distance, 0) \/ Gt(distance, 1000 * Unit) THEN NotEmitted
        ELSE IF Lt(compass, 0) \/ Ge(compass, 360 * Unit) THEN NotEmitted
        ELSE IF Lt(clino, -90 * Unit) \/ Gt(clino, 90 * Unit) THEN NotEmitted
        ELSE Emitted(DraftShot(shot_id, from_station, to_station,
                               RoundV(distance, Unit \div 100),
                               RoundV(compass, Unit \div 10),
                               RoundV(clino, Unit \div 10), shot_type))

\* re.sub(r'[^\w\d-]', '', name): "?" and "@S" are made of characters that are
\* removed or, for S, kept.
CleanName(name) ==
    IF name = "?" THEN "" ELSE IF name = "@S" THEN "S" ELSE IF name = "A1@S" THEN "A1S"
    ELSE IF name = "A2@S" THEN "A2S" ELSE name

\* ocr_utils.create_shot_dict
create_shot_dict(shot_id, from_station, to_station, distance, compass, clino) ==
    LET from_clean == CleanName(from_station)
        to_clean   == IF to_station \notin {NoneName, ""} THEN CleanName(to_station)
                      ELSE to_station
        shot_type  == IF to_clean = NoneName THEN "splay" ELSE "survey"
    IN  DraftShot(shot_id, from_clean, to_clean, RoundV(distance, Unit \div 100),
                  RoundV(compass, Unit \div 10), RoundV(clino, Unit \div 10), shot_type)

\* ocr_utils.parse_survey_line on a stripped line.  line.kind is "blank",
\* "short" (fewer than five fields under every pattern) or "fields";
\* line.header_word says that the line contains one of the header words.  The
\* three patterns differ in the separators; each converts the same five
\* fields and applies the same range test.
parse_survey_line(line, shot_id) ==
    IF line.kind = "blank" \/ line.header_word THEN NotEmitted
    ELSE IF line.kind = "short" THEN NotEmitted
    ELSE LET to_station == IF line.to # "-" THEN line.to ELSE NoneName
         IN  IF FloatRaises(line.distance) \/ FloatRaises(line.compass)
                   \/ FloatRaises(line.clino)
             THEN NotEmitted
             ELSE IF /\ Gt(line.distance, 0) /\ Lt(line.distance, 1000 * Unit)
                     /\ Ge(line.compass, 0) /\ Lt(line.compass, 360 * Unit)
                     /\ Ge(line.clino, -90 * Unit) /\ Le(line.clino, 90 * Unit)
             THEN Emitted(create_shot_dict(shot_id, line.from, to_station,
                                           line.distance, line.compass, line.clino))
             ELSE NotEmitted

\* A line of text as parse_survey_line and parse_topodroid_csv see it.
Line(kind, header_word, f, to, distance, compass, clino) ==
    [kind |-> kind, header_word |-> header_word, from |-> f, to |-> to,
     distance |-> distance, compass |-> compass, clino |-> clino]

\* Raw shots as the image extraction may return them to clean_shot.
RawShotInputs ==
    { DraftShot(0, f, to, d, c, cl, "") :
        f \in {"A1", "", NoneName}, to \in {"A2", "", "-", "null", "?", NoneName},
        d \in DistanceValues, c \in {Num(0), Num(360 * Unit), NaNV},
        cl \in {Num(90 * Unit), Num(90 * Unit + Unit \div 10), MissingV} }

\* Text lines handed to parse_survey_line; a field of a line is text, so a
\* reading is a number, nan or something float() refuses.
SurveyLineInputs ==
    { Line("blank", FALSE, "", "", StrV, StrV, StrV),
      Line("short", FALSE, "A1", "A2", StrV, StrV, StrV) }
    \cup { Line("fields", h, f, to, d, c, cl) :
             h \in BOOLEAN, f \in {"A1", "?"}, to \in {"A2", "-", "null", "?"},
             d \in DistanceValues \ {NoneV, MissingV},
             c \in {Num(0), Num(360 * Unit - Unit \div 10), Num(360 * Unit)},
             cl \in {Num(-90 * Unit), Num(90 * Unit), Num(90 * Unit + Unit \div 10)} }

\* Most lines of a CSV file in the model.
MaxLines == 3

\* The survey name of the header line "# S".
SurveyName == "S"

\* name.replace('@' + survey_name, "")
StripSurvey(name, survey_name) ==
    IF survey_name # SurveyName THEN name
    ELSE IF name = "A1@S" THEN "A1"
    ELSE IF name = "A2@S" THEN "A2"
    ELSE IF name = "@S" THEN ""
    ELSE name

\* The lines of a TopoDroid CSV file after strip(): blank; "# ... created by
\* TopoDroid ..."; "# S", a comment with none of the key words; "# from to
\* tape compass clino"; "# declination undefined"; a data line with fewer
\* than five fields; data lines with five fields, an empty reading being "".
CsvLineChoices ==
    { Line("blank", FALSE, "", "", StrV, StrV, StrV),
      Line("created", FALSE, "", "", StrV, StrV, StrV),
      Line("name", FALSE, "", "", StrV, StrV, StrV),
      Line("columns", TRUE, "", "", StrV, StrV, StrV),
      Line("declination", FALSE, "", "", StrV, StrV, StrV),
      Line("short", FALSE, "A1", "A2", StrV, StrV, StrV),
      Line("data", FALSE, "A1@S", "A2@S", Num(10 * Unit), Num(0), Num(0)),
      Line("data", FALSE, "A2@S", "-", Num(3 * Unit), Num(45 * Unit), Num(10 * Unit)),
      Line("data", FALSE, "A1", "A2", StrV, Num(0), Num(0)),
      Line("data", FALSE, "A1@S", "@S", Num(Unit), Num(2 * Unit), Num(3 * Unit)),
      Line("data", FALSE, "A2", "", MissingV, MissingV, MissingV) }

CsvInputs == UNION { [1..n -> CsvLineChoices] : n \in 0..MaxLines }

\* float(parts[i]) if parts[i] else 0.0
CsvFloat(x) == IF x.t = "missing" THEN Num(0) ELSE x

\* One iteration of parse_topodroid_csv's loop over the lines; st holds
\* metadata["survey_name"], metadata["created_date"], shots, and whether an
\* exception has left the function.
CsvLineStep(st, l) ==
    IF l.kind = "blank" THEN st
    ELSE IF l.kind = "created" THEN [st EXCEPT !.created = TRUE]
    ELSE IF l.kind \in {"name", "declination"}
    THEN \* a comment without key word is the survey name when none is set yet
         IF st.survey_name = NoneName
         THEN [st EXCEPT !.survey_name =
                            IF l.kind = "name" THEN SurveyName ELSE "declination undefined"]
         ELSE st
    ELSE IF l.kind = "columns" THEN st
    ELSE IF l.kind = "short" THEN st
    ELSE IF st.survey_name = NoneName
    THEN \* '@' + None: TypeError, which the except clause does not name
         [st EXCEPT !.raised = TRUE]
    ELSE LET from_station == StripSurvey(l.from, st.survey_name)
             to_station   == IF l.to \notin {"", "-"}
                             THEN StripSurvey(l.to, st.survey_name) ELSE NoneName
             shot_type    == IF to_station = NoneName \/ to_station = "-"
                             THEN "splay" ELSE "survey"
         IN  IF FloatRaises(CsvFloat(l.distance)) \/ FloatRaises(CsvFloat(l.compass))
                   \/ FloatRaises(CsvFloat(l.clino))
             THEN st
             ELSE [st EXCEPT !.shots = Append(@,
                      DraftShot(Len(st.shots) + 1, from_station, to_station,
                                CsvFloat(l.distance), CsvFloat(l.compass),
                                CsvFloat(l.clino), shot_type))]

RECURSIVE CsvFrom(_, _, _)
CsvFrom(lines, i, st) ==
    IF i > Len(lines) \/ st.raised THEN st
    ELSE CsvFrom(lines, i + 1, CsvLineStep(st, lines[i]))

\* draft_utils.parse_topodroid_csv on the lines of csv_content.
parse_topodroid_csv(lines) ==
    CsvFrom(lines, 1, [survey_name |-> NoneName, created |-> FALSE, shots |-> <<>>,
                       raised |-> FALSE])

CallParseTopodroidCsv ==
    /\ call.fn = "parse_topodroid_csv"
    /\ ~ret.done
    /\ Return(parse_topodroid_csv(call.arg))
    /\ UNCHANGED <<call, rvars, dvars, hvars>>

\* sorted(list(stations)): ascending in Python's str order.
RECURSIVE SortedNames(_)
SortedNames(S) ==
    IF S = {} THEN <<>>
    ELSE LET m == CHOOSE x \in S : \A y \in S \ {x} : StrLess(x, y)
         IN  <<m>> \o SortedNames(S \ {m})

\* Mutant of extract_stations: the destination is added whatever the type.
extract_stations_any_type(ss) ==
    SortedNames({ ss[i].from : i \in { j \in 1..Len(ss) : ss[j].from \notin {"", NoneName} } }
                \cup { ss[i].to : i \in { j \in 1..Len(ss) : ss[j].to \notin {"", NoneName} } })

\* draft_utils.extract_stations
extract_stations(ss) ==
    SortedNames({ ss[i].from : i \in { j \in 1..Len(ss) : ss[j].from \notin {"", NoneName} } }
                \cup { ss[i].to : i \in { j \in 1..Len(ss) :
                                           /\ ss[j].to \notin {"", NoneName}
                                           /\ ss[j].type = "survey" } })

\* [s for s in shots if s.get("type") == type]
ShotsOfType(ss, type) == SelectSeq(ss, LAMBDA s : s.type = type)

\* draft_utils.convert_draft_to_survey_data; of the metadata only the two
\* counts are kept.
convert_draft_to_survey_data(draft_data) ==
    LET ss           == IF draft_data.shots.t = "list" THEN draft_data.shots.v ELSE <<>>
        survey_shots == ShotsOfType(ss, "survey")
    IN  [metadata |-> [shot_count |-> Len(survey_shots),
                       splay_count |-> Len(ShotsOfType(ss, "splay"))],
         stations |-> extract_stations(ss),
         shots    |-> survey_shots,
         splays   |-> ShotsOfType(ss, "splay")]

\* A survey shot without destination and a shot without from station.
NoToShot == DraftShot(4, "A3", NoneName, Num(5 * Unit), Num(0), Num(0), "survey")

NoFromShot == DraftShot(5, "", "A1", Num(5 * Unit), Num(0), Num(0), "survey")

StationShotLists ==
    UNION { [1..n -> DraftShotChoices \cup {NoToShot, NoFromShot}] : n \in 0..MaxShots }

\* draft_data as commit_draft hands it to convert_draft_to_survey_data.
ConvertInputs ==
    { DraftData(Metadata(TRUE, FALSE, 0), NoRawText, ShotList(ss)) : ss \in DraftShotLists }

CallExtractStations ==
    /\ call.fn = "extract_stations"
    /\ ~ret.done
    /\ Return(extract_stations(call.arg))
    /\ UNCHANGED <<call, rvars, dvars, hvars>>

CallConvertDraft ==
    /\ call.fn = "convert_draft_to_survey_data"
    /\ ~ret.done
    /\ Return(convert_draft_to_survey_data(call.arg))
    /\ UNCHANGED <<call, rvars, dvars, hvars>>

ShotIds == 1..2

CallCleanShot ==
    /\ call.fn = "clean_shot"
    /\ ~ret.done
    /\ Return(clean_shot(call.arg.shot, call.arg.shot_id))
    /\ UNCHANGED <<call, rvars, dvars, hvars>>

CallParseSurveyLine ==
    /\ call.fn = "parse_survey_line"
    /\ ~ret.done
    /\ Return(parse_survey_line(call.arg.line, call.arg.shot_id))
    /\ UNCHANGED <<call, rvars, dvars, hvars>>

CallValidateShot ==
    /\ call.fn = "validate_shot"
    /\ ~ret.done
    /\ Return(validate_shot(call.arg))
    /\ UNCHANGED <<call, rvars, dvars, hvars>>

CallValidateDraftData ==
    /\ call.fn = "validate_draft_data"
    /\ ~ret.done
    /\ Return(validate_draft_data(call.arg))
    /\ UNCHANGED <<call, rvars, dvars, hvars>>

\* ------------------------------------------------- uploads and listings
NoListing == [user |-> 0, survey_id |-> 0, code |-> 0, rows |-> <<>>]

\* CSV files sent to upload_csv_draft: one that parses, and one whose data
\* line comes with no survey name before it, on which parse_topodroid_csv raises.
UploadCsvFiles ==
    { <<Line("name", FALSE, "", "", StrV, StrV, StrV),
        Line("data", FALSE, "A1@S", "A2@S", Num(10 * Unit), Num(0), Num(0))>>,
      <<Line("data", FALSE, "A1@S", "A2@S", Num(10 * Unit), Num(0), Num(0))>> }

\* What becomes of the files sent to upload_image_drafts: a file that is not
\* an image, text extraction failing with ValueError, or draft data.
ImageOutcomes == {"not_image", "ocr_error", "draft_data"}

\* db.query(Survey).filter(Survey.id == survey_id, Survey.owner_id == current_user.id).first()
SurveyOf(survey_id, user) == survey_id \in DOMAIN surveys /\ surveys[survey_id] = user

\* if not survey: a default survey of the user is added and committed.
EnsureSurvey(survey_id, user) ==
    surveys' = IF SurveyOf(survey_id, user) THEN surveys ELSE Append(surveys, user)

\* SurveyDraft(survey_id=survey_id, uploaded_by=current_user.id, ...)
DraftRow(survey_id, user, source_type) ==
    [survey_id |-> survey_id, uploaded_by |-> user, source_type |-> source_type]

\* POST /surveys/{survey_id}/drafts/upload-csv
upload_csv_draft(survey_id, user, csv_file) ==
    /\ reqs < MaxRequests
    /\ EnsureSurvey(survey_id, user)
    /\ IF parse_topodroid_csv(csv_file).raised
       THEN Respond("upload_csv_draft", 500) /\ UNCHANGED drafts
       ELSE /\ drafts' = Append(drafts, DraftRow(survey_id, user, "csv"))
            /\ Respond("upload_csv_draft", 200)
    /\ UNCHANGED <<listing, settings, json_tracked, draft, draft_exists, rvars, uvars, svars, cvars>>

\* POST /surveys/{survey_id}/drafts/upload-images
upload_image_drafts(survey_id, user, outcome) ==
    /\ reqs < MaxRequests
    /\ EnsureSurvey(survey_id, user)
    /\ IF outcome # "draft_data"
       THEN Respond("upload_image_drafts", 400) /\ UNCHANGED drafts
       ELSE /\ drafts' = Append(drafts, DraftRow(survey_id, user, "photo"))
            /\ Respond("upload_image_drafts", 200)
    /\ UNCHANGED <<listing, settings, json_tracked, draft, draft_exists, rvars, uvars, svars, cvars>>

\* db.query(SurveyDraft).filter(SurveyDraft.survey_id == survey_id).all()
DraftsOfSurvey(survey_id) == SelectSeq(drafts, LAMBDA d : d.survey_id = survey_id)

\* GET /surveys/{survey_id}/drafts
list_drafts(survey_id, user) ==
    /\ reqs < MaxRequests
    /\ EnsureSurvey(survey_id, user)
    /\ listing' = [user |-> user, survey_id |-> survey_id, code |-> 200,
                   rows |-> DraftsOfSurvey(survey_id)]
    /\ Respond("list_drafts", 200)
    /\ UNCHANGED <<drafts, settings, json_tracked, draft, draft_exists, rvars, uvars, svars, cvars>>

UploadCsvDraft ==
    \E s \in SurveyIds, usr \in Users, f \in UploadCsvFiles : upload_csv_draft(s, usr, f)

UploadImageDrafts ==
    \E s \in SurveyIds, usr \in Users, o \in ImageOutcomes : upload_image_drafts(s, usr, o)

ListDrafts == \E s \in SurveyIds, usr \in Users : list_drafts(s, usr)

\* Authentication is enabled; every user owns one survey and no draft is stored.
InitUpload ==
    /\ settings = [disable_auth |-> FALSE, anthropic_api_key |-> FALSE]
    /\ json_tracked = FALSE
    /\ draft_exists = FALSE
    /\ draft = NewDraft(NoDraftData)
    /\ reqs = 0
    /\ response = [op |-> "none", code |-> 0]
    /\ surveys = [s \in SurveyIds |-> SurveyOwner(s)]
    /\ drafts = <<>>
    /\ listing = NoListing

NextUpload == UploadCsvDraft \/ UploadImageDrafts \/ ListDrafts

\* ------------------------------------------------------- specifications
\* No draft request is in play while reduce_graph runs.
DraftIdle ==
    /\ settings = [disable_auth |-> FALSE, anthropic_api_key |-> FALSE]
    /\ json_tracked = FALSE
    /\ draft_exists = FALSE
    /\ draft = NewDraft(NoDraftData)
    /\ reqs = 0
    /\ response = [op |-> "none", code |-> 0]

\* No function is called on its own.
UtilIdle ==
    /\ call = [fn |-> "none", arg |-> <<>>]
    /\ ret = [done |-> FALSE, value |-> <<>>]

\* No request on the whole survey has been handled.
SurveyIdle ==
    /\ survey_stats = [s \in SurveyIds |-> NoStats]
    /\ result = NoResult

\* No pair of concurrent commit requests is under way.
RaceIdle ==
    /\ creq = [r \in Requests |-> [pc |-> "done", user |-> 1, seen |-> NewDraft(NoDraftData), code |-> 0]]
    /\ commit_writes = 0

\* No upload or list request has been handled.
UploadIdle ==
    /\ surveys = [s \in SurveyIds |-> SurveyOwner(s)]
    /\ drafts = <<>>
    /\ listing = NoListing

HandlersIdle == SurveyIdle /\ RaceIdle /\ UploadIdle

\* reduce_graph is not running while the draft requests are handled.
ReduceIdle ==
    /\ shots = <<>>
    /\ origin_name = AbsentName
    /\ offset = <<0, 0, 0>>
    /\ pc = "idle"
    /\ graph = EmptyGraph
    /\ shot_map = <<>>
    /\ seed = origin_name
    /\ pos = <<>>
    /\ visited_edges = {}
    /\ residuals = <<>>
    /\ total_slope = 0
    /\ total_horiz = 0
    /\ q = <<>>
    /\ u = origin_name
    /\ k = 1
    /\ edges = {}
    /\ meta = <<>>
    /\ via = <<>>
    /\ first = NoRun

Init == InitReduce /\ DraftIdle /\ UtilIdle /\ HandlersIdle

Next == Begin \/ Dequeue \/ ForEdge \/ Finish

\* One call of reduce_graph that is never suspended for ever: the function is
\* sequential code with no wait, so a step that can be taken is taken.
InitFair == InitReduce /\ shots \in LoopShotLists /\ DraftIdle /\ UtilIdle /\ HandlersIdle

SpecFair == InitFair /\ [][Next]_vars /\ WF_vars(Next)

InitD == InitDraft /\ ReduceIdle /\ UtilIdle /\ HandlersIdle

\* One call of reduce_graph on every input of the model.
Spec == Init /\ [][Next]_vars

\* The draft handlers on one stored draft.
SpecDraft == InitD /\ [][NextDraft]_vars

InitS == InitSurvey /\ ReduceIdle /\ UtilIdle /\ RaceIdle /\ UploadIdle

\* The requests on the whole survey, with the commit and the deletion of its draft.
SpecSurvey == InitS /\ [][NextSurvey]_vars

InitR == InitRace /\ ReduceIdle /\ UtilIdle /\ SurveyIdle /\ UploadIdle

InitL == InitUpload /\ ReduceIdle /\ UtilIdle /\ SurveyIdle /\ RaceIdle

\* Uploads and listings by the users, in any order.
SpecUpload == InitL /\ [][NextUpload]_vars

\* Two commit_draft requests on the same draft, their steps interleaved.
SpecRace == InitR /\ [][RaceStep]_vars

InitPair == InitReduce /\ shots \in PairShotLists /\ DraftIdle /\ UtilIdle /\ HandlersIdle

NextPair == Begin \/ Dequeue \/ ForEdge \/ Finish \/ Rerun

\* Two calls of reduce_graph, one after the other, on the same shots.
SpecPair == InitPair /\ [][NextPair]_vars

UtilCalls ==
    { [fn |-> "validate_draft_data", arg |-> d] : d \in DraftDataInputs }
    \cup { [fn |-> "validate_shot", arg |-> s] : s \in ShotInputs }
    \cup { [fn |-> "clean_shot", arg |-> [shot |-> s, shot_id |-> i]] :
             s \in RawShotInputs, i \in ShotIds }
    \cup { [fn |-> "parse_survey_line", arg |-> [line |-> l, shot_id |-> i]] :
             l \in SurveyLineInputs, i \in ShotIds }
    \cup { [fn |-> "parse_topodroid_csv", arg |-> c] : c \in CsvInputs }
    \cup { [fn |-> "convert_draft_to_survey_data", arg |-> d] : d \in ConvertInputs }
    \cup { [fn |-> "extract_stations", arg |-> ss] : ss \in StationShotLists }

InitUtil ==
    /\ call \in UtilCalls
    /\ ret = [done |-> FALSE, value |-> <<>>]
    /\ ReduceIdle
    /\ DraftIdle
    /\ HandlersIdle

NextUtil ==
    \/ CallValidateDraftData
    \/ CallValidateShot
    \/ CallCleanShot
    \/ CallParseSurveyLine
    \/ CallParseTopodroidCsv
    \/ CallConvertDraft
    \/ CallExtractStations

\* One call of one of the validating, parsing and converting functions.
SpecUtil == InitUtil /\ [][NextUtil]_vars


\* ------------------------------------------------- notions the claims use
\* The stations some shot of ss starts or ends at.
Endpoints(ss) ==
    { ss[i].from_station : i \in 1..Len(ss) } \cup { ss[i].to_station : i \in 1..Len(ss) }

\* The stations joined to a station of S by a chain of shots, in either direction.
RECURSIVE Reach(_, _)
Reach(ss, S) ==
    LET N == S \cup { ss[i].to_station : i \in { j \in 1..Len(ss) : ss[j].from_station \in S } }
               \cup { ss[i].from_station : i \in { j \in 1..Len(ss) : ss[j].to_station \in S } }
    IN  IF N = S THEN S ELSE Reach(ss, N)

\* Every station of the shot list is joined to every other.
Connected(ss) == \A s \in Endpoints(ss) : Reach(ss, {s}) = Endpoints(ss)

\* The unordered station pairs of the shots.
UnorderedPairs(ss) == { {ss[i].from_station, ss[i].to_station} : i \in 1..Len(ss) }

\* The undirected station graph is a tree: connected, no self-loop, no pair
\* shot twice (in either direction), one shot fewer than stations.
IsTree(ss) ==
    /\ Len(ss) >= 1
    /\ Connected(ss)
    /\ \A i \in 1..Len(ss) : ss[i].from_station # ss[i].to_station
    /\ Cardinality(UnorderedPairs(ss)) = Len(ss)
    /\ Len(ss) = Cardinality(Endpoints(ss)) - 1

\* The shot that edge id eid was built from.
ShotOfEdge(eid) == shots[(eid \div 2) + 1]

\* The station from which v was positioned.
Parent(v) == graph.vec[via[v] + 1].u

RECURSIVE SumOver(_, _)
SumOver(S, f) ==
    IF S = {} THEN 0
    ELSE LET x == CHOOSE y \in S : TRUE IN f[x] + SumOver(S \ {x}, f)

ScenarioLoop ==
    <<Shot("A1", "A2", 10 * Unit, 0, 0), Shot("A2", "A3", 10 * Unit, 90, 0),
      Shot("A3", "A1", 10 * Unit, 180, 0)>>

ScenarioOpen ==
    <<Shot("A1", "A2", 10 * Unit, 0, 0), Shot("A2", "A3", 10 * Unit, 90, 0)>>

\* ------------------------------------------------------------------ claims

\* C1: once a station has a position, that position never changes for the rest
\* of the traversal; an edge into a positioned station only appends one
\* residual (positions, queue and totals stay); and from the seeding on the
\* seed's position is the caller's offset.
C1_PositionsFrozen ==
    /\ [][ /\ \A s \in DOMAIN pos : s \in DOMAIN pos' /\ pos'[s] = pos[s]
           /\ (pc = "for" /\ graph.adj[u][k][1] \in DOMAIN pos) =>
                 /\ pos' = pos
                 /\ q' = q
                 /\ total_slope' = total_slope /\ total_horiz' = total_horiz
                 /\ Len(residuals') = Len(residuals) + 1
                 /\ SubSeq(residuals', 1, Len(residuals)) = residuals ]_vars
    /\ [](pc # "idle" => (seed \in DOMAIN pos /\ pos[seed] = offset))

\* C1 witness: a traversal is over in which an edge predicted another position
\* for a positioned station (a non-zero residual), from a non-zero offset.
C1_Witness ==
    /\ pc = "done"
    /\ offset # <<0, 0, 0>>
    /\ \E i \in 1..Len(residuals) :
          <<residuals[i][3], residuals[i][4], residuals[i][5]>> # <<0, 0, 0>>

\* C2: at the end the positioned stations are exactly those joined to the seed
\* by a chain of shots, and the seed is origin_name when a shot mentions it;
\* the other stations have no position (every run, connected or not, ends in
\* "done": the model has no failing step).
C2_PositionedIsComponent ==
    pc = "done" =>
        /\ DOMAIN pos = Reach(shots, {seed})
        /\ (origin_name \in Endpoints(shots) => seed = origin_name)
        /\ meta.num_stations = Cardinality(Reach(shots, {seed}))

\* C2 witness: the run ended with the origin not the first station of the
\* list, a station positioned besides the seed, and a station left out.
C2_Witness ==
    /\ pc = "done"
    /\ origin_name \in Endpoints(shots)
    /\ origin_name # shots[1].from_station
    /\ Cardinality(DOMAIN pos) >= 2
    /\ Endpoints(shots) \ DOMAIN pos # {}

C5_OneResidualForLoop ==
    (pc = "done" /\ shots = ScenarioLoop /\ origin_name = "A1") =>
        /\ Len(residuals) = 1
        /\ residuals[1][1] \in {"A2", "A3"}
        /\ residuals[1][2] = "A1"
        /\ <<residuals[1][3], residuals[1][4], residuals[1][5]>>
               \in { <<10 * Unit, 0, 0>>, <<-10 * Unit, 0, 0>> }
        /\ pos["A1"] = offset

\* C6: a shot list whose station graph is a tree gives no residual.
C6_TreeHasNoResidual ==
    (pc = "done" /\ IsTree(shots)) => residuals = <<>>

\* C7: azimuth 0 moves +distance along y, azimuth 90 +distance along x (level
\* shots); every position is the offset plus the displacements along the path
\* that positioned the station; and the two-shot scenario from A1 at the
\* origin gives A2 = (0,10,0), A3 = (10,10,0), total 20 and the stated box.
C7_CardinalScenario ==
    pc = "done" =>
        /\ \A i \in 1..Len(shots) :
              LET s == shots[i]
                  fwd == graph.vec[2 * i - 1]
                  rev == graph.vec[2 * i]
              IN  /\ (s.inclination_deg = 0 /\ s.azimuth_deg = 0) =>
                         fwd.d = <<0, s.slope_distance, 0>>
                  /\ (s.inclination_deg = 0 /\ s.azimuth_deg = 90) =>
                         fwd.d = <<s.slope_distance, 0, 0>>
                  /\ rev.d = <<-fwd.d[1], -fwd.d[2], -fwd.d[3]>>
        /\ \A v \in DOMAIN pos :
              IF v = seed THEN pos[v] = offset
              ELSE pos[v] = Vadd(pos[Parent(v)], graph.vec[via[v] + 1].d)
        /\ (shots = ScenarioOpen /\ origin_name = "A1" /\ offset = <<0, 0, 0>>) =>
              /\ pos = [s \in {"A1", "A2", "A3"} |->
                          CASE s = "A1" -> <<0, 0, 0>>
                            [] s = "A2" -> <<0, 10 * Unit, 0>>
                            [] s = "A3" -> <<10 * Unit, 10 * Unit, 0>>]
              /\ meta.total_slope_distance = 20 * Unit
              /\ meta.bbox = [min_x |-> 0, max_x |-> 10 * Unit,
                              min_y |-> 0, max_y |-> 10 * Unit,
                              min_z |-> 0, max_z |-> 0]

\* C7 witness: the scenario has been reduced.
C7_Witness ==
    /\ pc = "done"
    /\ shots = ScenarioOpen
    /\ origin_name = "A1"
    /\ offset = <<0, 0, 0>>
    /\ "A3" \in DOMAIN pos

\* C8: the running totals are the slope and horizontal distances of the shots
\* underlying the edges that positioned a station, each counted once.
C8_TotalsOfPositioningShots ==
    pc # "idle" =>
        /\ total_slope =
              SumOver(DOMAIN via, [v \in DOMAIN via |-> ShotOfEdge(via[v]).slope_distance])
        /\ total_horiz =
              SumOver(DOMAIN via,
                  [v \in DOMAIN via |->
                      shot_to_deltas(ShotOfEdge(via[v]).slope_distance,
                                     ShotOfEdge(via[v]).azimuth_deg,
                                     ShotOfEdge(via[v]).inclination_deg)[4]])

\* C9: the returned edge set is the set of unordered station pairs of the
\* shots, each stored once with its names in lexicographic order, and
\* num_shots is its size.
C9_EdgesAreUnorderedPairs ==
    pc = "done" =>
        /\ { {e[1], e[2]} : e \in edges } = UnorderedPairs(shots)
        /\ \A e \in edges : ~StrLess(e[2], e[1])
        /\ Cardinality(edges) = Cardinality(UnorderedPairs(shots))
        /\ meta.num_shots = Cardinality(UnorderedPairs(shots))

\* C9 witness: a list holding a leg, its reverse and a repetition gave one edge.
C9_Witness ==
    /\ pc = "done"
    /\ Len(shots) = 3
    /\ \E i, j \in 1..Len(shots) :
          /\ shots[i].from_station = shots[j].to_station
          /\ shots[i].to_station = shots[j].from_station
          /\ shots[i].from_station # shots[i].to_station
    /\ \E i, j \in 1..Len(shots) : i # j /\ shots[i] = shots[j]
    /\ edges = {<<"A1", "A2">>}

\* C10: every returned edge has both its stations among the positioned ones.
C10_NoOrphanEdges ==
    pc = "done" => \A e \in edges : e[1] \in DOMAIN pos /\ e[2] \in DOMAIN pos

\* C3: once committed, the draft stays: no request removes it or changes its
\* draft_data, has_errors, error_count, validation_notes, status or committed_at.
C3_CommittedImmutable ==
    [][(draft_exists /\ draft.status = "committed") =>
           (draft_exists' /\ draft' = draft)]_vars

TwoOrigins ==
    /\ pc = "done"
    /\ first.ran
    /\ Connected(shots)
    /\ origin_name # first.origin_name
    /\ {origin_name, first.origin_name} \subseteq Endpoints(shots)

\* pos(s) - pos(t) is the same in both results, for every pair of stations.
SameRelativeGeometry ==
    /\ DOMAIN pos = DOMAIN first.pos
    /\ \A s, t \in DOMAIN pos : \A i \in 1..3 :
          pos[s][i] - pos[t][i] = first.pos[s][i] - first.pos[t][i]

\* Every residual of the list is (0, 0, 0).
AllZero(rs) == \A i \in 1..Len(rs) : rs[i][3] = 0 /\ rs[i][4] = 0 /\ rs[i][5] = 0

ValidatedList ==
    /\ call.fn = "validate_draft_data"
    /\ ret.done
    /\ call.arg.shots.t = "list"
    /\ Len(call.arg.shots.v) > 0

\* The survey-type shots of ss whose (from, to) pair an earlier survey-type
\* shot has.
RepeatedSurveyShots(ss) ==
    { i \in 1..Len(ss) :
        /\ ss[i].type = "survey"
        /\ \E j \in 1..(i - 1) :
              ss[j].type = "survey" /\ ss[j].from = ss[i].from /\ ss[j].to = ss[i].to }

\* C13: validate_draft_data reports one duplicate issue for each survey-type
\* shot whose (from, to) pair occurred earlier among the survey-type shots (n
\* occurrences give n - 1 issues), and duplicates do not change validity: for
\* a non-empty shot list is_valid is true exactly when there is no shot issue,
\* that is when validate_shot finds nothing in any shot.
C13_DuplicatesReportedNotInvalid ==
    ValidatedList =>
        LET ss     == call.arg.shots.v
            issues == ret.value.issues
            dups   == { i \in 1..Len(issues) : issues[i].type = "duplicate" }
        IN  /\ Cardinality(dups) = Cardinality(RepeatedSurveyShots(ss))
            /\ \A i \in dups :
                  \E j \in RepeatedSurveyShots(ss) : issues[i].shot_id = ss[j].id
            /\ ret.value.is_valid <=> (CountType(issues, "shot") = 0)
            /\ ret.value.is_valid <=> (\A i \in 1..Len(ss) : validate_shot(ss[i]) = <<>>)

\* The same valid survey shot three times: two duplicate issues, still valid.
C13_Witness ==
    /\ ValidatedList
    /\ call.arg.shots.v = <<GoodShot1, GoodShot1, GoodShot1>>
    /\ CountType(ret.value.issues, "duplicate") = 2
    /\ ret.value.is_valid

\* 'shots' is missing, is not a list, or is the empty list.
NoUsableShots(draft_data) ==
    draft_data.shots.t # "list" \/ Len(draft_data.shots.v) = 0

\* C14: a batch without a usable shot list is always invalid: when 'shots' is
\* missing, is not a list or is empty, validate_draft_data answers is_valid =
\* false with a structure or data issue, and commit_draft on a stored draft of
\* that kind is refused and leaves the draft as it is.
C14_NoShotsNeverCommitted ==
    /\ [](NoUsableShots(draft.draft_data) =>
            LET r == validate_draft_data(draft.draft_data)
            IN  /\ ~r.is_valid
                /\ \E i \in 1..Len(r.issues) : r.issues[i].type \in {"structure", "data"})
    /\ [][(/\ draft_exists
            /\ NoUsableShots(draft.draft_data)
            /\ reqs' = reqs + 1
            /\ response'.op = "commit_draft")
           => (response'.code # 200 /\ draft' = draft)]_vars

\* commit_draft has just refused the owner's request on a stored draft whose
\* 'shots' key is missing.
C14_Witness ==
    /\ draft_exists
    /\ draft.status = "draft"
    /\ draft.draft_data.shots.t = "missing"
    /\ draft.has_errors
    /\ response = [op |-> "commit_draft", code |-> 400]

\* The messages validate_shot has for a reading outside its range.
RangeMessages ==
    { "Distance must be greater than 0", "Distance seems unusually large",
      "Compass must be between 0 and 360", "Clino must be between -90 and 90" }

NoRangeError(errors) == \A i \in 1..Len(errors) : errors[i] \notin RangeMessages

\* 0 < distance <= 1000, 0 <= compass < 360, -90 <= clino <= 90.
InRange(distance, compass, clino) ==
    /\ Gt(distance, 0) /\ Le(distance, 1000 * Unit)
    /\ Ge(compass, 0) /\ Lt(compass, 360 * Unit)
    /\ Ge(clino, -90 * Unit) /\ Le(clino, 90 * Unit)

\* validate_shot has returned for a shot whose three readings are floats.
ValidatedFloats ==
    /\ call.fn = "validate_shot"
    /\ ret.done
    /\ IsNumber(call.arg.distance) /\ IsNumber(call.arg.compass) /\ IsNumber(call.arg.clino)

\* C15: validate_shot reports no range error exactly when 0 < distance <=
\* 1000, 0 <= compass < 360 and -90 <= clino <= 90.
C15_RangeErrorsExactlyOutsideRanges ==
    ValidatedFloats =>
        (NoRangeError(ret.value)
            <=> InRange(call.arg.distance, call.arg.compass, call.arg.clino))

\* clean_shot or parse_survey_line has returned for a record with a non-empty
\* from station whose three readings are floats.
ParsedRecord ==
    /\ ret.done
    /\ \/ /\ call.fn = "clean_shot"
          /\ call.arg.shot.from # ""
          /\ IsNumber(call.arg.shot.distance)
          /\ IsNumber(call.arg.shot.compass)
          /\ IsNumber(call.arg.shot.clino)
       \/ /\ call.fn = "parse_survey_line"
          /\ call.arg.line.kind = "fields"
          /\ ~call.arg.line.header_word
          /\ IsNumber(call.arg.line.distance)

\* The record handed to the parser.
ParsedInput == IF call.fn = "clean_shot" THEN call.arg.shot ELSE call.arg.line

\* C16: clean_shot and parse_survey_line each accept a record with a non-empty
\* from station exactly when 0 < distance <= 1000, 0 <= azimuth < 360 and
\* -90 <= inclination <= 90, the domain of validate_shot and of the Shot
\* model; a distance of exactly 1000 is accepted by all of them.
C16_ParsersAcceptExactlyTheRanges ==
    ParsedRecord =>
        (ret.value.emitted
            <=> InRange(ParsedInput.distance, ParsedInput.compass, ParsedInput.clino))

\* The shots the parser that was called has emitted.
EmittedShots ==
    IF ~ret.done THEN {}
    ELSE IF call.fn \in {"clean_shot", "parse_survey_line"}
    THEN (IF ret.value.emitted THEN {ret.value.shot} ELSE {})
    ELSE IF call.fn = "parse_topodroid_csv"
    THEN { ret.value.shots[i] : i \in 1..Len(ret.value.shots) }
    ELSE {}

\* C17: every shot a parser emits (clean_shot, create_shot_dict under
\* parse_survey_line, parse_topodroid_csv) has type "splay" exactly when its
\* 'to' is None and type "survey" exactly when its 'to' is a non-empty
\* station name.
C17_TypeFollowsDestination ==
    \A s \in EmittedShots :
        /\ (s.type = "splay") <=> (s.to = NoneName)
        /\ (s.type = "survey") <=> (s.to \notin {NoneName, ""})

\* A data line whose readings float() converts.
WellFormed(l) ==
    /\ l.kind = "data"
    /\ ~FloatRaises(CsvFloat(l.distance))
    /\ ~FloatRaises(CsvFloat(l.compass))
    /\ ~FloatRaises(CsvFloat(l.clino))

\* C18: for every CSV content, with or without a survey-name header line and
\* with any mix of well-formed and malformed lines, parse_topodroid_csv
\* returns a result: it skips each malformed line and emits the shots of the
\* other data lines in input order with ids 1..k, k at most the number of
\* data lines.
C18_CsvAlwaysParsed ==
    (call.fn = "parse_topodroid_csv" /\ ret.done) =>
        LET good == SelectSeq(call.arg, WellFormed)
            data == SelectSeq(call.arg, LAMBDA l : l.kind \in {"data", "short"})
        IN  /\ ~ret.value.raised
            /\ Len(ret.value.shots) = Len(good)
            /\ Len(ret.value.shots) <= Len(data)
            /\ \A i \in 1..Len(ret.value.shots) :
                  /\ ret.value.shots[i].id = i
                  /\ ret.value.shots[i].distance = CsvFloat(good[i].distance)

\* C19: convert_draft_to_survey_data partitions the shots: every shot of a
\* draft that passed validate_draft_data is in exactly one of 'shots' and
\* 'splays', so shot_count + splay_count is the number of input shots.
C19_ConvertPartitionsShots ==
    (/\ call.fn = "convert_draft_to_survey_data"
     /\ ret.done
     /\ validate_draft_data(call.arg).is_valid) =>
        LET ss == call.arg.shots.v
            r  == ret.value
        IN  /\ r.metadata.shot_count + r.metadata.splay_count = Len(ss)
            /\ Len(r.shots) + Len(r.splays) = Len(ss)
            /\ \A i \in 1..Len(ss) :
                  (\E j \in 1..Len(r.shots) : r.shots[j] = ss[i])
                      # (\E j \in 1..Len(r.splays) : r.splays[j] = ss[i])

\* C20: extract_stations returns a sorted list without repeats that holds
\* exactly the 'from' names of all shots and the 'to' names of the
\* survey-type shots; a splay never contributes its destination.
C20_StationsSortedFromAndSurveyTo ==
    (call.fn = "extract_stations" /\ ret.done) =>
        LET ss == call.arg
            r  == ret.value
            IsName(n) == n \notin {"", NoneName}
        IN  /\ \A i, j \in 1..Len(r) : i < j => StrLess(r[i], r[j])
            /\ { r[i] : i \in 1..Len(r) }
                  = { ss[i].from : i \in { j \in 1..Len(ss) : IsName(ss[j].from) } }
                    \cup { ss[i].to : i \in { j \in 1..Len(ss) :
                                 ss[j].type = "survey" /\ IsName(ss[j].to) } }

\* extract_stations has returned for a splay that names a destination, a
\* survey shot and a shot from A10: A10 sorts before A2, the splay's
\* destination A2 comes in by the survey shot only, A1 is there once.
C20_Witness ==
    /\ call.fn = "extract_stations"
    /\ ret.done
    /\ call.arg = <<SplayWithTo, LegShot, GoodShot1>>
    /\ ret.value = <<"A1", "A10", "A2">>

\* Edge number e of the graph (vec[e - 1] in the code) leads from a to b.
EdgeJoins(e, a, b) == graph.vec[e].u = a /\ graph.vec[e].v = b

\* C26: when reduce_graph is done the positions agree with the shot
\* displacements: every positioned station other than the seed has a
\* directed edge u -> v into it with pos[v] = pos[u] + delta(u -> v), and every
\* residual (u, v, r) is pos[u] + delta(u -> v) - pos[v] for a directed edge
\* u -> v of the graph.
C26_PositionsAgreeWithDeltas ==
    pc = "done" =>
        /\ \A v \in DOMAIN pos \ {seed} :
              \E e \in 1..Len(graph.vec) :
                  /\ graph.vec[e].v = v
                  /\ graph.vec[e].u \in DOMAIN pos
                  /\ \A i \in 1..3 :
                        pos[v][i] = pos[graph.vec[e].u][i] + graph.vec[e].d[i]
        /\ \A j \in 1..Len(residuals) :
              /\ residuals[j][1] \in DOMAIN pos
              /\ residuals[j][2] \in DOMAIN pos
              /\ \E e \in 1..Len(graph.vec) :
                    /\ EdgeJoins(e, residuals[j][1], residuals[j][2])
                    /\ \A i \in 1..3 :
                          residuals[j][i + 2] = pos[residuals[j][1]][i]
                              + graph.vec[e].d[i] - pos[residuals[j][2]][i]

\* Done with a shifted origin, three positioned stations and a residual that
\* is not zero.
C26_Witness ==
    /\ pc = "done"
    /\ offset # <<0, 0, 0>>
    /\ Cardinality(DOMAIN pos) >= 3
    /\ \E j \in 1..Len(residuals) : residuals[j][3] # 0 \/ residuals[j][4] # 0

\* C27: reducing an empty shot list gives an empty network: no positioned
\* station (num_stations = 0) and an empty bounding box; and the bounding box
\* is non-empty only when some positioned station is an endpoint of a shot.
C27_EmptyShotsEmptyNetwork ==
    pc = "done" =>
        /\ shots = <<>> => meta.num_stations = 0 /\ meta.bbox = <<>>
        /\ meta.bbox # <<>> => \E s \in DOMAIN pos : s \in Endpoints(shots)

\* C28: build_graph gives the i-th shot (counted from 0) the two directed
\* edges 2i and 2i + 1: vec[2i] = (from, to, +delta), vec[2i + 1] =
\* (to, from, -delta); the graph has 2 * |shots| edges, and every adjacency
\* entry (v, eid) listed under a station u names an existing edge with
\* vec[eid] = (u, v, .).  (graph.vec[e + 1] is the code's vec[e].)
C28_TwoDirectedEdgesPerShot ==
    pc # "idle" =>
        /\ Len(graph.vec) = 2 * Len(shots)
        /\ \A i \in 0..(Len(shots) - 1) :
              LET s == shots[i + 1]
                  d == shot_to_deltas(s.slope_distance, s.azimuth_deg, s.inclination_deg)
              IN  /\ graph.vec[2 * i + 1] =
                        [u |-> s.from_station, v |-> s.to_station,
                         d |-> <<d[1], d[2], d[3]>>]
                  /\ graph.vec[2 * i + 2] =
                        [u |-> s.to_station, v |-> s.from_station,
                         d |-> <<0 - d[1], 0 - d[2], 0 - d[3]>>]
        /\ \A n \in AllNames : \A j \in 1..Len(graph.adj[n]) :
              LET v   == graph.adj[n][j][1]
                  eid == graph.adj[n][j][2]
              IN  /\ eid \in 0..(Len(graph.vec) - 1)
                  /\ graph.vec[eid + 1].u = n
                  /\ graph.vec[eid + 1].v = v

\* A graph built from three shots, among them a self-loop and a repeated leg.
C28_Witness ==
    /\ pc # "idle"
    /\ Len(shots) = 3
    /\ \E i \in 1..3 : shots[i].from_station = shots[i].to_station
    /\ \E i, j \in 1..3 : i < j /\ shots[i].from_station = shots[j].from_station
                                /\ shots[i].to_station = shots[j].to_station
    /\ Len(graph.vec) = 6

\* The edges processed so far, i.e. that passed "if eid in visited_edges:
\* continue": each of them positioned a station or appended a residual.
EdgesProcessed == Cardinality(DOMAIN via) + Len(residuals)

\* A station is appended to the queue.
Enqueues == pc \in {"while", "for"} /\ Len(q') > Len(q)

\* C29: reduce_graph terminates on every shot list, loops, repeated shots
\* and self-loops included; each directed edge is processed at most once (the
\* edges processed are as many as the distinct ids recorded, never more than
\* the graph has) and each station is enqueued at most once (a station
\* enqueued had no position before, has one from then on, and positions are
\* never taken away).
C29_TerminatesEachEdgeAndStationOnce ==
    /\ <>(pc = "done")
    /\ [](pc # "idle" =>
            /\ EdgesProcessed = Cardinality(visited_edges)
            /\ visited_edges \subseteq 0..(Len(graph.vec) - 1)
            /\ \A i, j \in 1..Len(q) : q[i] = q[j] => i = j
            /\ \A i \in 1..Len(q) : q[i] \in DOMAIN pos)
    /\ [][/\ Enqueues =>
               \E v \in AllNames : /\ q' = Append(q, v)
                                   /\ v \notin DOMAIN pos
                                   /\ v \in DOMAIN pos'
           /\ pc \in {"while", "for"} => DOMAIN pos \subseteq DOMAIN pos']_vars

\* A finished run over a self-loop and a repeated leg: every one of the six
\* directed edges has been processed.
C29_Witness ==
    /\ pc = "done"
    /\ Len(shots) = 3
    /\ \E i \in 1..3 : shots[i].from_station = shots[i].to_station
    /\ \E i, j \in 1..3 : i < j /\ shots[i].from_station = shots[j].from_station
                                /\ shots[i].to_station = shots[j].to_station
    /\ Cardinality(visited_edges) = 6

\* C21: an export_survey request with a format outside {srv, dat, svx, th,
\* csv, json} is answered with the unsupported-format error (HTTP 400), with
\* no payload and no change of the stored drafts and survey rows; a request
\* with a format of the set is never answered with that error.
C21_UnknownFormatRejected ==
    [][\A s \in SurveyIds, f \in FormatInputs, usr \in Users :
          export_survey(s, f, usr) =>
              /\ f \notin Formats =>
                    /\ result'.code = 400
                    /\ result'.detail = "Unsupported format"
                    /\ result'.payload = NoPayload
                    /\ UNCHANGED <<draft, draft_exists, survey_stats>>
              /\ f \in Formats => result'.detail # "Unsupported format"]_vars

\* The committed drafts of survey s hold no shot of type survey.
NoSurveyShotCommitted(s) ==
    \A i \in 1..Len(CommittedDrafts(s)) :
        LET ss == CommittedDrafts(s)[i].draft_data.shots
        IN  ss.t = "list" => \A j \in 1..Len(ss.v) : ss.v[j].type # "survey"

\* C22: a reduce_survey request of the owner on a survey whose committed
\* drafts hold no survey-type shot is answered with HTTP 400 'No survey shots
\* to reduce'; no reduction is run (nothing is returned) and the survey's
\* stored num_stations, num_shots and total_slope_distance stay as they were.
C22_NoSurveyShotsNoReduction ==
    [][\A s \in SurveyIds, usr \in Users :
          (reduce_survey(s, usr) /\ OwnSurvey(s, usr) /\ NoSurveyShotCommitted(s)) =>
              /\ result'.code = 400
              /\ result'.detail = "No survey shots to reduce"
              /\ result'.payload = NoPayload
              /\ UNCHANGED survey_stats]_vars

\* The reduction was refused on a survey whose committed draft holds splays only.
C22_Witness ==
    /\ result.op = "reduce_survey"
    /\ result.code = 400
    /\ draft_exists
    /\ draft.status = "committed"
    /\ CommittedDrafts(DraftSurveyId) # <<>>
    /\ NoSurveyShotCommitted(DraftSurveyId)

\* A commit_draft request is handled in this step.
CommitRequest == \E s \in SurveyIds, d \in DraftIds, usr \in Users : commit_draft(s, d, usr)

\* C23: commit_draft gates the commit on validation: the status of a draft
\* becomes 'committed' only in a commit_draft request and only if
\* validate_draft_data of its draft_data, as stored at that moment, says
\* is_valid; a commit that is refused (invalid data, already committed, not
\* found, access denied) leaves status, data and committed_at as they were.
C23_CommitGatedOnValidation ==
    [][/\ (draft.status # "committed" /\ draft'.status = "committed") =>
               /\ CommitRequest
               /\ response'.code = 200
               /\ validate_draft_data(draft.draft_data).is_valid
               /\ draft'.draft_data = draft.draft_data
       /\ (CommitRequest /\ response'.code # 200) =>
               /\ response'.code \in {400, 403, 404}
               /\ UNCHANGED <<draft, draft_exists>>]_vars

\* A draft committed after its data had been replaced by an update.
C23_Witness ==
    /\ response = [op |-> "commit_draft", code |-> 200]
    /\ draft.status = "committed"
    /\ draft.committed_at = reqs
    /\ reqs >= 2
    /\ draft.draft_data \notin UploadedDraftData

\* The data lines of a raw text.
DataLines(raw_text) == { i \in 1..Len(raw_text) : raw_text[i] = "data" }

\* C24: with no text-extraction service configured, a parse_draft_text
\* request on raw text with well-formed data lines succeeds and stores one
\* shot for each data line; the draft then has no shot issue (has_errors is
\* false), so that a commit_draft that follows is allowed.
C24_SimpleParseGivesCommittableDraft ==
    [][\A s \in SurveyIds, d \in DraftIds, usr \in Users, rt \in RawTexts, cs \in ClaudeShots :
          (/\ parse_draft_text(s, d, usr, rt, cs)
           /\ ~settings.anthropic_api_key
           /\ FindDraft(s, d) /\ FindSurvey(s, usr)
           /\ draft.draft_data.metadata.present
           /\ DataLines(rt) # {}) =>
              /\ response'.code = 200
              /\ draft'.draft_data.shots.t = "list"
              /\ Len(draft'.draft_data.shots.v) = Cardinality(DataLines(rt))
              /\ ~draft'.has_errors
              /\ draft.status # "committed" => commit_draft_allowed(draft')]_vars

\* The requests that reported success.
Succeeded == { r \in Requests : creq[r].code = 200 }

\* C25: of two commit_draft requests on the same draft that run at the same
\* time at most one reports success, and committed_at is written once.
C25_CommittedExactlyOnce ==
    /\ Cardinality(Succeeded) <= 1
    /\ commit_writes <= 1

\* C30: with authentication enabled, after any sequence of upload_csv_draft,
\* upload_image_drafts and list_drafts requests every stored draft lies in a
\* survey owned by the user who uploaded it, and what list_drafts returned
\* are drafts of a survey the requester owns.
C30_DraftsStayInOwnSurveys ==
    ~settings.disable_auth =>
        /\ \A i \in 1..Len(drafts) :
              /\ drafts[i].survey_id \in DOMAIN surveys
              /\ surveys[drafts[i].survey_id] = drafts[i].uploaded_by
        /\ \A i \in 1..Len(listing.rows) :
              surveys[listing.rows[i].survey_id] = listing.user

====
